---- MODULE Spec2Model ----
(***************************************************************************)
(* A model of the OntoGenesis control machinery:                           *)
(*   - CapabilityGraph (src/src/ontology/graph.py): a networkx DiGraph of  *)
(*     type nodes and tool edges, with its path, reachability and gap      *)
(*     queries, and its save to and load from a JSON file;                 *)
(*   - OntoGenesisAgent.solve_task (src/src/agent/core.py): the bounded    *)
(*     synthesize -> execute -> verify retry loop;                         *)
(*   - CodeRunner and DockerRunner (src/src/execution): what a run and a   *)
(*     verification return, raise, trace and leave behind;                 *)
(*   - two solve_task calls running at once on one agent, with the shared  *)
(*     Tracer (src/src/utils/tracer.py) whose span stack they both use;    *)
(*   - the test code of TestGenerator (src/src/synthesis): validate_schema *)
(*     and test_output_schema on the value read from result.json;          *)
(*   - extract_code_block (src/src/utils/code_parsing.py) on responses of  *)
(*     fences and code, and the input of DockerRunner.run_code as its      *)
(*     wrapper script evaluates it.                                        *)
(*                                                                         *)
(* Text (code, error messages, prompts) is a sequence of tokens; the empty *)
(* sequence is the empty string.  An Optional value is a sequence of       *)
(* length at most one: << >> is None and <<x>> is the value x.             *)
(***************************************************************************)
EXTENDS Integers, Sequences, FiniteSets, TLC

\* ------------------------------------------------------------------ bounds

\* The most edges the graph is grown to.
MaxEdges == 3

\* The most edges the stored ontology is grown to.
MaxStoreEdges == 2

\* The most containers left behind that a runner call is made with.
MaxContainers == 2

\* The most spans left open that a runner call is made with.
MaxSpans == 2

\* The largest max_retries concurrent solve_task calls are made with.
MaxSessionRetries == 1

\* The most elements of a list that is validated.
MaxItems == 2

\* The most tokens of a response code is extracted from.
MaxTokens == 4

\* The largest max_retries a solve_task call is given.
MaxRetriesBound == 2

\* ------------------------------------------------------------- value sets

Types == {"TypeA", "TypeB", "TypeC", "TypeD"}

Schemas == {"S1", "S2"}

ToolNames == {"t1", "t2"}

None == << >>

Some(x) == <<x>>

\* Python truthiness of an Optional[str]: None and "" are both falsy.
Truthy(o) == o # None /\ o[1] # << >>

\* Tool (pydantic model): name, input_type, output_type, constraints, code.
Tool(n, i, o) == [name |-> n, input_type |-> i, output_type |-> o,
                  constraints |-> << >>, code |-> << >>]

AllTools == {Tool(n, i, o) : n \in ToolNames, i \in Types, o \in Types}

\* ------------------------------------------------------------------ graph
\* A graph value: nodes, the attribute dict of each node (None: no 'schema'
\* attribute, Some(s): schema s), and the 'tool' attribute of each edge.

EmptyGraph == [nodes |-> {}, attrs |-> << >>, tools |-> << >>]

Edges(G) == DOMAIN G.tools

\* Mutant of AddType: a node that is registered again loses its edges.
AddType_DropEdges(G, name, s) ==
    [nodes |-> G.nodes \cup {name},
     attrs |-> [n \in G.nodes \cup {name} |-> IF n = name THEN Some(s) ELSE G.attrs[n]],
     tools |-> [e \in {x \in DOMAIN G.tools : x[1] # name /\ x[2] # name} |-> G.tools[e]]]

\* add_type: nx add_node(name, schema=...) adds the node or updates its attribute.
AddType(G, name, s) ==
    [G EXCEPT !.nodes = @ \cup {name},
              !.attrs = [n \in G.nodes \cup {name} |->
                            IF n = name THEN Some(s) ELSE G.attrs[n]]]

\* Mutant of AddTool: a pair that has a tool keeps it.
AddTool_KeepFirst(G, tool) ==
    LET u == tool.input_type
        v == tool.output_type
        ns == G.nodes \cup {u, v}
    IN [nodes |-> ns,
        attrs |-> [n \in ns |-> IF n \in G.nodes THEN G.attrs[n] ELSE <<>>],
        tools |-> [e \in DOMAIN G.tools \cup {<<u, v>>} |->
                      IF e \in DOMAIN G.tools THEN G.tools[e] ELSE tool]]

\* add_tool: nx add_edge(u, v, tool=tool) adds a missing endpoint as a node with
\* no attributes, and adds the edge or overwrites its 'tool' attribute.
AddTool(G, tool) ==
    LET u == tool.input_type
        v == tool.output_type
        ns == G.nodes \cup {u, v}
    IN [nodes |-> ns,
        attrs |-> [n \in ns |-> IF n \in G.nodes THEN G.attrs[n] ELSE None],
        tools |-> [e \in Edges(G) \cup {<<u, v>>} |->
                      IF e = <<u, v>> THEN tool ELSE G.tools[e]]]

Succ(G, v) == {w \in G.nodes : <<v, w>> \in Edges(G)}

Pred(G, v) == {w \in G.nodes : <<w, v>> \in Edges(G)}

\* ------------------------------------------------------- nx.shortest_path
\* networkx's unweighted shortest_path is a bidirectional breadth-first search.
\* pred maps each node found from the source to the node it was found from
\* (the source to nothing), succ likewise from the target.  The search expands
\* the smaller fringe one whole level at a time and returns at the first edge
\* that joins the two sides.  The order in which a level's nodes and a node's
\* neighbours are visited is the graph's insertion order, which this model does
\* not keep: pred and succ hold, per node, every node it can be found from,
\* and the search yields every path some visiting order returns.

RECURSIVE PredChains(_, _)
PredChains(predP, v) ==
    IF predP[v] = {} THEN {<<v>>}
    ELSE UNION {{Append(c, v) : c \in PredChains(predP, p)} : p \in predP[v]}

RECURSIVE SuccChains(_, _)
SuccChains(succP, w) ==
    IF succP[w] = {} THEN {<<w>>}
    ELSE UNION {{<<w>> \o c : c \in SuccChains(succP, n)} : n \in succP[w]}

\* The paths built from a meeting node w: pred chain to w, then succ chain on.
JoinAt(predP, succP, w) ==
    {c \o Tail(d) : c \in PredChains(predP, w), d \in SuccChains(succP, w)}

\* The fringe to expand: the forward one unless it is the longer.
ExpandForward(ff, rf) == Cardinality(ff) <= Cardinality(rf)

RECURSIVE BidirectionalPredSucc(_, _, _, _, _)
BidirectionalPredSucc(G, predP, succP, ff, rf) ==
    IF ff = {} \/ rf = {} THEN {}
    ELSE IF ExpandForward(ff, rf)
    THEN LET new == {w \in G.nodes \ DOMAIN predP : Pred(G, w) \cap ff # {}}
             meet == {e \in Edges(G) : e[1] \in ff /\ e[2] \in DOMAIN succP}
         IN IF meet # {}
            THEN UNION {JoinAt(IF e[2] \in DOMAIN predP THEN predP
                               ELSE (e[2] :> {e[1]}) @@ predP, succP, e[2])
                        : e \in meet}
            ELSE BidirectionalPredSucc(G,
                     [w \in DOMAIN predP \cup new |->
                         IF w \in DOMAIN predP THEN predP[w] ELSE Pred(G, w) \cap ff],
                     succP, new, rf)
    ELSE LET new == {w \in G.nodes \ DOMAIN succP : Succ(G, w) \cap rf # {}}
             meet == {e \in Edges(G) : e[2] \in rf /\ e[1] \in DOMAIN predP}
         IN IF meet # {}
            THEN UNION {JoinAt(predP,
                               IF e[1] \in DOMAIN succP THEN succP
                               ELSE (e[1] :> {e[2]}) @@ succP, e[1])
                        : e \in meet}
            ELSE BidirectionalPredSucc(G, predP,
                     [w \in DOMAIN succP \cup new |->
                         IF w \in DOMAIN succP THEN succP[w] ELSE Succ(G, w) \cap rf],
                     ff, new)

\* nx.shortest_path(G, source, target): the paths it can return; the empty set
\* is NetworkXNoPath.  Both nodes are in G (the caller has checked).
ShortestPath(G, source, target) ==
    IF source = target THEN {<<source>>}
    ELSE BidirectionalPredSucc(G, (source :> {}), (target :> {}), {source}, {target})

\* An absent source or target makes nx.shortest_path raise NodeNotFound.
NodeMissing(G, s, t) == s \notin G.nodes \/ t \notin G.nodes

\* Mutant of FindPath: only a direct edge counts as a path.
FindPath_DirectEdgeOnly(G, s, t) ==
    IF NodeMissing(G, s, t)
    THEN {[exc |-> "NodeNotFound", path |-> << >>]}
    ELSE IF s = t THEN {[exc |-> "none", path |-> <<s>>]}
    ELSE IF <<s, t>> \in Edges(G) THEN {[exc |-> "none", path |-> <<s, t>>]}
    ELSE {[exc |-> "none", path |-> << >>]}

\* Mutant of FindPath: a depth-first search, which returns whichever simple
\* path it comes to first.
RECURSIVE DepthFirstPaths(_, _, _, _)
DepthFirstPaths(G, s, t, seen) ==
    IF s = t THEN {<<s>>}
    ELSE UNION {{<<s>> \o p : p \in DepthFirstPaths(G, n, t, seen \cup {s})}
                : n \in Succ(G, s) \ (seen \cup {s})}

FindPath_DepthFirst(G, s, t) ==
    IF NodeMissing(G, s, t)
    THEN {[exc |-> "NodeNotFound", path |-> << >>]}
    ELSE LET ps == DepthFirstPaths(G, s, t, {})
         IN IF ps = {} THEN {[exc |-> "none", path |-> << >>]}
            ELSE {[exc |-> "none", path |-> p] : p \in ps}

\* find_path: nx.shortest_path, with NetworkXNoPath (and nothing else) caught
\* and turned into [].  Its outcomes: exc is "none" or the exception raised.
FindPath(G, s, t) ==
    IF NodeMissing(G, s, t)
    THEN {[exc |-> "NodeNotFound", path |-> << >>]}
    ELSE LET ps == ShortestPath(G, s, t)
         IN IF ps = {} THEN {[exc |-> "none", path |-> << >>]}
            ELSE {[exc |-> "none", path |-> p] : p \in ps}

\* ------------------------------------------- forward / backward search

RECURSIVE ClosureSucc(_, _)
ClosureSucc(G, S) ==
    LET N == S \cup UNION {Succ(G, v) : v \in S}
    IN IF N = S THEN S ELSE ClosureSucc(G, N)

RECURSIVE ClosurePred(_, _)
ClosurePred(G, S) ==
    LET N == S \cup UNION {Pred(G, v) : v \in S}
    IN IF N = S THEN S ELSE ClosurePred(G, N)

\* nx.descendants / nx.ancestors: the nodes reachable from (reaching) the node,
\* the node itself excluded.
Descendants(G, s) == ClosureSucc(G, {s}) \ {s}

Ancestors(G, t) == ClosurePred(G, {t}) \ {t}

\* Mutant of forward_search: the start node itself is left out.
forward_search_WithoutStart(G, start_node) ==
    IF start_node \notin G.nodes THEN {} ELSE Descendants(G, start_node)

forward_search(G, start_node) ==
    IF start_node \notin G.nodes THEN {}
    ELSE Descendants(G, start_node) \cup {start_node}

backward_search(G, end_node) ==
    IF end_node \notin G.nodes THEN {}
    ELSE Ancestors(G, end_node) \cup {end_node}

\* detect_gap: an exception of find_path propagates; a non-empty path gives
\* {"gap": False} (the other fields are unset: shown empty here); otherwise the
\* gap record with both search sets.
DetectGap(G, s, t) ==
    {IF r.exc # "none"
     THEN [exc |-> r.exc, gap |-> FALSE, source |-> None, target |-> None,
           forward_reachable |-> {}, backward_required |-> {}]
     ELSE IF r.path # << >>
     THEN [exc |-> "none", gap |-> FALSE, source |-> None, target |-> None,
           forward_reachable |-> {}, backward_required |-> {}]
     ELSE [exc |-> "none", gap |-> TRUE, source |-> Some(s), target |-> Some(t),
           forward_reachable |-> forward_search(G, s),
           backward_required |-> backward_search(G, t)]
     : r \in FindPath(G, s, t)}

\* ------------------------------------------------------ persisted document
\* {nodes: [{name, schema}], edges: [{source, target, tool}]}

DocNode(n, s) == [name |-> n, schema |-> s]

DocEdge(t) == [source |-> t.input_type, target |-> t.output_type, tool |-> t]

\* The documents a load is given: the empty one, a two-node graph with its
\* edge, and one with a repeated node, a repeated edge and edge endpoints that
\* are not among its nodes.
Documents ==
    { [nodes |-> << >>, edges |-> << >>],
      [nodes |-> <<DocNode("TypeA", "S1"), DocNode("TypeB", "S2")>>,
       edges |-> <<DocEdge(Tool("t1", "TypeA", "TypeB"))>>],
      [nodes |-> <<DocNode("TypeA", "S1"), DocNode("TypeA", "S2")>>,
       edges |-> <<DocEdge(Tool("t1", "TypeB", "TypeC")),
                   DocEdge(Tool("t2", "TypeB", "TypeC"))>>] }

\* What a record of a document holds where a key is absent, and a schema value
\* that is not a dict (DataType rejects it).
Missing == "<missing>"

NotADict == "not a dict"

\* DataType(name=node_data["name"], schema_def=node_data["schema"])
NodeRecordError(r) ==
    IF r.schema = Missing THEN "KeyError"
    ELSE IF r.schema = NotADict THEN "ValidationError"
    ELSE "none"

\* Tool(**tool_data): name is a required field.
ToolRecordError(r) ==
    IF r.tool.name = Missing THEN "ValidationError" ELSE "none"

\* The loops of load_from_json: each record is added as it is read, and a
\* record that cannot be built raises with the earlier ones already added.
RECURSIVE LoadNodes(_, _)
LoadNodes(G, ns) ==
    IF ns = << >> THEN [graph |-> G, exc |-> "none"]
    ELSE IF NodeRecordError(Head(ns)) # "none"
    THEN [graph |-> G, exc |-> NodeRecordError(Head(ns))]
    ELSE LoadNodes(AddType(G, Head(ns).name, Head(ns).schema), Tail(ns))

RECURSIVE LoadEdges(_, _)
LoadEdges(G, es) ==
    IF es = << >> THEN [graph |-> G, exc |-> "none"]
    ELSE IF ToolRecordError(Head(es)) # "none"
    THEN [graph |-> G, exc |-> ToolRecordError(Head(es))]
    ELSE LoadEdges(AddTool(G, Head(es).tool), Tail(es))

\* Mutant of Clear: the graph is kept and the document merged into it.
Clear_Keep(G) == G

\* self.graph.clear()
Clear(G) == EmptyGraph

\* ------------------------------------------------------------- the file
\* The file at the path: None when there is none, else its content.  A content
\* is JSON text holding a document, JSON text whose object lacks the "nodes" or
\* the "edges" key, or text json.load cannot parse (doc then holds what was
\* written of a document before the write stopped).

Content(kind, doc) == [kind |-> kind, doc |-> doc]

\* Mutant of os_path_exists: a path with no file is read as an empty document.
os_path_exists_Always(f) == TRUE

\* os.path.exists(path)
os_path_exists(f) == f # None

\* What is read at the path.
ReadFile(f) ==
    IF f = None THEN Content("document", [nodes |-> << >>, edges |-> << >>])
    ELSE f[1]

\* load_from_json: its outcome is the graph it leaves and the exception it
\* raises ("none": it returns).
LoadFromJson(G, f) ==
    IF ~os_path_exists(f) THEN [graph |-> G, exc |-> "none"]
    ELSE LET c == ReadFile(f)
         IN IF c.kind = "unparsable" THEN [graph |-> G, exc |-> "JSONDecodeError"]
            ELSE IF c.kind = "no_nodes" THEN [graph |-> Clear(G), exc |-> "KeyError"]
            ELSE LET n == LoadNodes(Clear(G), c.doc.nodes)
                 IN IF n.exc # "none" THEN n
                    ELSE IF c.kind = "no_edges"
                    THEN [graph |-> n.graph, exc |-> "KeyError"]
                    ELSE LoadEdges(n.graph, c.doc.edges)

\* load_from_json of a file that holds the document doc.
LoadDocument(G, doc) == LoadFromJson(G, Some(Content("document", doc))).graph

\* attrs.get("schema", {}): a node without the attribute is written with {}.
EmptySchema == "{}"

\* A schema holding a value json.dump cannot encode (a set, a type object).
Unserializable == "S_set"

JsonEncodable(s) == s # Unserializable

\* The order nodes and edges are written in.  networkx iterates in insertion
\* order, which this model does not keep; a fixed order stands for it.
TypeOrder == <<"TypeA", "TypeB", "TypeC", "TypeD">>

PairOrder ==
    [k \in 1..(Len(TypeOrder) * Len(TypeOrder)) |->
        <<TypeOrder[((k - 1) \div Len(TypeOrder)) + 1],
          TypeOrder[((k - 1) % Len(TypeOrder)) + 1]>>]

NodeIn(G, n) == n \in G.nodes

EdgeIn(G, e) == e \in Edges(G)

\* data["nodes"] and data["edges"] as save_to_json builds them.
SaveNodes(G) ==
    LET ns == SelectSeq(TypeOrder, LAMBDA n : NodeIn(G, n))
    IN [i \in 1..Len(ns) |->
           DocNode(ns[i], IF G.attrs[ns[i]] = None THEN EmptySchema
                          ELSE G.attrs[ns[i]][1])]

SaveEdges(G) ==
    LET es == SelectSeq(PairOrder, LAMBDA e : EdgeIn(G, e))
    IN [i \in 1..Len(es) |-> DocEdge(G.tools[es[i]])]

\* The node records json.dump has written when it reaches a value it cannot
\* encode: those before the first such record.
RECURSIVE WrittenBefore(_)
WrittenBefore(ns) ==
    IF ns = << >> \/ ~JsonEncodable(Head(ns).schema) THEN << >>
    ELSE <<Head(ns)>> \o WrittenBefore(Tail(ns))

\* save_to_json: data is built in memory, open(path, "w") truncates the file,
\* and json.dump writes the document piece by piece; a value it cannot encode
\* raises TypeError with the earlier pieces written.
SaveToJson(G, f) ==
    LET ns == SaveNodes(G)
    IN IF \A i \in 1..Len(ns) : JsonEncodable(ns[i].schema)
       THEN [file |-> Some(Content("document", [nodes |-> ns, edges |-> SaveEdges(G)])),
             exc |-> "none"]
       ELSE [file |-> Some(Content("unparsable",
                                   [nodes |-> WrittenBefore(ns), edges |-> << >>])),
             exc |-> "TypeError"]

\* ------------------------------------------------------- code extraction

\* The fence tokens stand for three backquotes, the first with the tag python,
\* the last with another tag.
FencePython == "[fence]python"

Fence == "[fence]"

FenceOther == "[fence]js"

\* A token at which a fence starts.
IsFence(tok) == tok \in {Fence, FencePython, FenceOther}


\* The first fence after position i, or 0.
ClosingFence(text, i) ==
    IF \E j \in (i + 1)..Len(text) : IsFence(text[j])
    THEN CHOOSE j \in (i + 1)..Len(text) :
             /\ IsFence(text[j])
             /\ \A k \in (i + 1)..(j - 1) : ~IsFence(text[k])
    ELSE 0

\* The first position whose token satisfies the opening test and has a
\* closing fence after it, or 0.
FirstBlock(text, python) ==
    LET opens == {i \in 1..Len(text) :
                     /\ IF python THEN text[i] = FencePython ELSE IsFence(text[i])
                     /\ ClosingFence(text, i) # 0}
    IN IF opens = {} THEN 0 ELSE CHOOSE i \in opens : \A k \in opens : i <= k

\* extract_code_block: what follows the first three backquotes with python
\* after them, up to the next three backquotes; else what follows the first
\* three backquotes that have three more after them, a tag included; else the
\* whole text.
extract_code_block(text) ==
    LET a == FirstBlock(text, TRUE)
        b == FirstBlock(text, FALSE)
        Tag(tok) == IF tok = FencePython THEN <<"python">>
                    ELSE IF tok = FenceOther THEN <<"js">>
                    ELSE << >>
    IN IF a # 0 THEN SubSeq(text, a + 1, ClosingFence(text, a) - 1)
       ELSE IF b # 0 THEN Tag(text[b]) \o SubSeq(text, b + 1, ClosingFence(text, b) - 1)
       ELSE text

\* ------------------------------------------------------------ collaborators
\* What the calls solve_task makes can do: each returns or raises, with the
\* text str(e) of what it raises.

\* llm_provider.generate: a response (code in a python-tagged block, bare code, or
\* nothing), or a transport failure.
Responses == { <<FencePython, "code1", Fence>>, <<"code2">>, << >> }

GenerateOutcomes ==
    {[ok |-> TRUE, text |-> r, error |-> << >>] : r \in Responses}
    \cup {[ok |-> FALSE, text |-> << >>, error |-> <<"generate failed">>]}

\* The values a transform returns.
Values == {"value1", "value2"}

\* CodeRunner.run_code / DockerRunner.run_code, with the message each failure
\* is raised with.  An empty payload defines no entry point.
RunnerErrors(r, code) ==
    IF r = "local"
    THEN IF code = << >>
         THEN { <<"Entry point transform not found in executed code.">> }
         ELSE { <<"Failed to define code:", "detail">>,
                <<"Entry point transform not found in executed code.">>,
                <<"Entry point transform is not callable.">>,
                <<"Failed to execute entry point transform:", "detail">> }
    ELSE { <<"Container execution failed:", "detail">>,
           <<"Docker execution failed:", "Execution failed (Invalid JSON):", "detail">>,
           <<"Docker execution failed:", "detail">> }

RunCodeOutcomes(r, code) ==
    {[ok |-> FALSE, value |-> None, error |-> e] : e \in RunnerErrors(r, code)}
    \cup (IF r = "local" /\ code = << >> THEN {}
          ELSE {[ok |-> TRUE, value |-> Some(v), error |-> << >>] : v \in Values})

\* verification_fn(result): returns, or raises; str(e) of a bare assert is "".
VerificationFnOutcomes ==
    { [ok |-> TRUE, error |-> << >>],
      [ok |-> FALSE, error |-> << >>],
      [ok |-> FALSE, error |-> <<"result rejected">>] }

\* DockerRunner.verify_result on the generated test code: returns True, or
\* raises with the pytest output (raised inside the ContainerError handler, so
\* not wrapped again), or with the wrapped text of another docker failure.
VerifyResultOutcomes ==
    { [ok |-> TRUE, error |-> << >>],
      [ok |-> FALSE, error |-> <<"Verification failed:", "detail">>],
      [ok |-> FALSE, error |-> <<"Docker verification failed:", "detail">>] }

\* ------------------------------------------------------------- solve_task

\* graph.nodes[name]['schema']: KeyError when the node or the attribute is
\* missing.
SchemaLookup(G, name) ==
    IF name \notin G.nodes THEN [ok |-> FALSE, schema |-> "", error |-> <<"KeyError", name>>]
    ELSE IF G.attrs[name] = None THEN [ok |-> FALSE, schema |-> "", error |-> <<"KeyError", "schema">>]
    ELSE [ok |-> TRUE, schema |-> G.attrs[name][1], error |-> << >>]

\* The retry block is appended when feedback and previous_code are both truthy.
RetryBlock(fb, previous_code) ==
    IF Truthy(fb) /\ Truthy(previous_code)
    THEN <<"PREVIOUS ATTEMPT FAILED.", "CODE:">> \o previous_code[1]
         \o <<"ERROR:">> \o fb[1] \o <<"Fix the code to resolve the error.">>
    ELSE << >>

\* The prompt _synthesize_tool builds.
BuildPrompt(start_type, start_schema, target_type, target_schema, fb, previous_code) ==
    <<"We have a data type", start_type, "with schema:", start_schema,
      "We need to transform it into", target_type, "with schema:", target_schema,
      "Write a Python function transform">>
    \o RetryBlock(fb, previous_code)

\* for attempt in range(max_retries + 1)
LoopRange(max_retries) == 0..max_retries

\* if attempt == max_retries: raise
IsLastAttempt(a, max_retries) == a = max_retries

\* RuntimeError(f"Failed to solve task after {max_retries} retries. Last error: {feedback}")
ExhaustedMessage(max_retries, fb) ==
    [text |-> "Failed to solve task after retries. Last error:",
     retries |-> max_retries, last_error |-> fb]

\* ------------------------------------------------------------------ state

VARIABLES
    graph,          \* CapabilityGraph.graph
    outcome,        \* how the last call ended: returned (a value) or raised
    runner,         \* the agent's runner: "local" (CodeRunner) or "docker" (DockerRunner)
    pc,             \* where solve_task stands
    task,           \* the arguments of the solve_task call
    attempt,        \* solve_task's loop variable
    current_code,   \* solve_task's current_code
    feedback,       \* solve_task's feedback
    result,         \* solve_task's result
    genCalls,       \* calls of llm_provider.generate made by the call
    execCalls,      \* calls of runner.run_code made by the call
    attempts,       \* loop iterations the call has entered
    prompt,         \* the last prompt given to generate
    hist,           \* what this attempt generated and returned, what the
                    \* previous attempt generated and failed with, and how
                    \* many attempts have failed
    file,           \* the file at the path save and load are given
    last,           \* the last operation made: its name, the exception it
                    \* raised and the case of it that happened
    call,           \* the input of the last runner call
    span_stack,     \* tracer.span_stack, as the names of the open spans
    span_ended,     \* the spans the last runner call ended, with what each
                    \* end_span reported
    containers,     \* containers created by runner calls that still exist
    temp_dirs,      \* temporary directories of runner calls that still exist
    host,           \* what payloads have left in the process the agent runs
                    \* in and on its filesystem
    sessions,       \* the solve_task invocations running on one agent, each
                    \* with its local variables
    tracing,        \* whether the tracer records or is a no-op
    validation,     \* the last run of the generated test code: its inputs
                    \* and its verdict
    conversion      \* the last conversion made on its own: its input and
                    \* its output

agentVars == <<runner, pc, task, attempt, current_code, feedback, result,
               genCalls, execCalls, attempts, prompt, hist>>

storeVars == <<file, last>>

sandboxVars == <<call, span_stack, span_ended, containers, temp_dirs, host>>

concurrentVars == <<sessions, tracing>>

validatorVars == <<validation, conversion>>

vars == <<graph, outcome, runner, pc, task, attempt, current_code, feedback,
          result, genCalls, execCalls, attempts, prompt, hist, file, last,
          call, span_stack, span_ended, containers, temp_dirs, host,
          sessions, tracing, validation, conversion>>

Returned(v) == [kind |-> "returned", value |-> v, exc |-> "none", msg |-> << >>]

Raised(e, m) == [kind |-> "raised", value |-> None, exc |-> e, msg |-> m]

NoTask == [start_type |-> "", target_type |-> "", max_retries |-> 0,
           verification_fn |-> FALSE]

\* Nothing generated, returned or failed yet.
NoHist == [thisCode |-> None, thisValue |-> None, prevCode |-> None,
           prevErr |-> None, failures |-> 0]

\* The agent before any solve_task call.
AgentIdle ==
    /\ pc = "idle"
    /\ task = NoTask
    /\ attempt = 0
    /\ current_code = None
    /\ feedback = None
    /\ result = None
    /\ genCalls = 0
    /\ execCalls = 0
    /\ attempts = 0
    /\ prompt = None
    /\ hist = NoHist

NoOp == [op |-> "none", exc |-> "none", case |-> "none"]

\* No file at the path, no operation made.
StoreIdle == file = None /\ last = NoOp

NoCall == [op |-> "none"]

\* No runner call made: no span open, no container, no temporary directory.
SandboxIdle ==
    /\ call = NoCall
    /\ span_stack = << >>
    /\ span_ended = << >>
    /\ containers = 0
    /\ temp_dirs = 0
    /\ host = {}

\* The invocations of solve_task that can run at once on one agent.
Invocations == {"first", "second"}

\* An invocation that has not been called.
IdleSession ==
    [pc |-> "idle",
     task |-> [start_type |-> "", target_type |-> "", max_retries |-> 0, plan |-> << >>],
     attempt |-> 0, current_code |-> None,
     feedback |-> None, requests |-> << >>, attempts |-> 0,
     outcome |-> Returned(None), parent |-> FALSE, steps |-> 0]

\* No invocation called; the tracer records.
ConcurrentIdle ==
    /\ sessions = [i \in Invocations |-> IdleSession]
    /\ tracing = "records"

\* No test code run, no conversion made.
ValidatorIdle == validation = [op |-> "none"] /\ conversion = [op |-> "none"]

\* The tools and the schema registered call by call while the graph is grown
\* for its queries (the documents loaded carry the other names).
GraphTools == {Tool("t1", i, o) : i \in Types, o \in Types}

GraphSchemas == {"S1"}

Init ==
    /\ graph = EmptyGraph
    /\ outcome = Returned(None)
    /\ runner = "local"
    /\ AgentIdle
    /\ StoreIdle
    /\ SandboxIdle
    /\ ConcurrentIdle
    /\ ValidatorIdle

\* CapabilityGraph.add_type
add_type(name, s) ==
    /\ graph' = AddType(graph, name, s)
    /\ outcome' = Returned(None)
    /\ UNCHANGED agentVars
    /\ UNCHANGED storeVars
    /\ UNCHANGED sandboxVars
    /\ UNCHANGED concurrentVars
    /\ UNCHANGED validatorVars

\* CapabilityGraph.add_tool
add_tool(tool) ==
    /\ \/ <<tool.input_type, tool.output_type>> \in Edges(graph)
       \/ Cardinality(Edges(graph)) < MaxEdges
    /\ graph' = AddTool(graph, tool)
    /\ outcome' = Returned(None)
    /\ UNCHANGED agentVars
    /\ UNCHANGED storeVars
    /\ UNCHANGED sandboxVars
    /\ UNCHANGED concurrentVars
    /\ UNCHANGED validatorVars

\* CapabilityGraph.load_from_json, the file present
load_from_json(doc) ==
    /\ graph' = LoadDocument(graph, doc)
    /\ outcome' = Returned(None)
    /\ UNCHANGED agentVars
    /\ UNCHANGED storeVars
    /\ UNCHANGED sandboxVars
    /\ UNCHANGED concurrentVars
    /\ UNCHANGED validatorVars

\* CapabilityGraph.load_from_json, no file at the path: returns at once
load_missing_file ==
    /\ outcome' = Returned(None)
    /\ UNCHANGED graph
    /\ UNCHANGED agentVars
    /\ UNCHANGED storeVars
    /\ UNCHANGED sandboxVars
    /\ UNCHANGED concurrentVars
    /\ UNCHANGED validatorVars

NextGraph ==
    \/ \E name \in Types, s \in GraphSchemas : add_type(name, s)
    \/ \E tool \in GraphTools : add_tool(tool)
    \/ \E doc \in Documents : load_from_json(doc)
    \/ load_missing_file

SpecGraph == Init /\ [][NextGraph]_vars

\* --------------------------------------------------------- ontology store
\* The agent's ontology operations (register_type, register_tool,
\* save_ontology, load_ontology) on one path, whose file another program can
\* also write.

StoreTypes == {"TypeA", "TypeB"}

StoreSchemas == {"S1", Unserializable}

\* The tools registered: one per pair, and a second one for one of the pairs.
StoreTools ==
    {Tool("t1", i, o) : i \in StoreTypes, o \in StoreTypes}
    \cup {Tool("t2", "TypeA", "TypeB")}

\* Contents another program leaves at the path: a document with a repeated
\* node, a repeated edge and an edge endpoint that is not among its nodes; an
\* object without "nodes", one without "edges"; a document whose second node
\* record has a schema that is not a dict, one whose node record lacks
\* "schema", and one whose second edge record holds a tool without a name.
ForeignContents ==
    { Content("document", [nodes |-> <<DocNode("TypeA", "S2"), DocNode("TypeA", "S1")>>,
                           edges |-> <<DocEdge(Tool("t1", "TypeA", "TypeB")),
                                       DocEdge(Tool("t2", "TypeA", "TypeB"))>>]),
      Content("no_nodes", [nodes |-> << >>, edges |-> << >>]),
      Content("no_edges", [nodes |-> <<DocNode("TypeA", "S1")>>, edges |-> << >>]),
      Content("document", [nodes |-> <<DocNode("TypeA", "S1"), DocNode("TypeB", NotADict)>>,
                           edges |-> << >>]),
      Content("document", [nodes |-> <<DocNode("TypeB", Missing)>>, edges |-> << >>]),
      Content("document", [nodes |-> <<DocNode("TypeA", "S1")>>,
                           edges |-> <<DocEdge(Tool("t1", "TypeA", "TypeA")),
                                       DocEdge(Tool(Missing, "TypeA", "TypeB"))>>]) }

\* OntoGenesisAgent.register_type
register_type(name, s) ==
    /\ graph' = AddType(graph, name, s)
    /\ outcome' = Returned(None)
    /\ last' = [op |-> "register_type", exc |-> "none",
                case |-> IF name \notin graph.nodes THEN "new"
                         ELSE IF graph.attrs[name] = Some(s) THEN "same"
                         ELSE "replaced"]
    /\ UNCHANGED file
    /\ UNCHANGED agentVars
    /\ UNCHANGED sandboxVars
    /\ UNCHANGED concurrentVars
    /\ UNCHANGED validatorVars

\* OntoGenesisAgent.register_tool
register_tool(tool) ==
    /\ \/ <<tool.input_type, tool.output_type>> \in Edges(graph)
       \/ Cardinality(Edges(graph)) < MaxStoreEdges
    /\ graph' = AddTool(graph, tool)
    /\ outcome' = Returned(None)
    /\ last' = [op |-> "register_tool", exc |-> "none",
                case |-> IF <<tool.input_type, tool.output_type>> \notin Edges(graph)
                         THEN "new"
                         ELSE IF graph.tools[<<tool.input_type, tool.output_type>>] = tool
                         THEN "same"
                         ELSE "replaced"]
    /\ UNCHANGED file
    /\ UNCHANGED agentVars
    /\ UNCHANGED sandboxVars
    /\ UNCHANGED concurrentVars
    /\ UNCHANGED validatorVars

\* OntoGenesisAgent.save_ontology
save_ontology ==
    LET r == SaveToJson(graph, file)
    IN /\ file' = r.file
       /\ outcome' = IF r.exc = "none" THEN Returned(None) ELSE Raised(r.exc, << >>)
       /\ last' = [op |-> "save_ontology", exc |-> r.exc,
                   case |-> IF file = None THEN "new" ELSE "replaced"]
       /\ UNCHANGED graph
       /\ UNCHANGED agentVars
       /\ UNCHANGED sandboxVars
       /\ UNCHANGED concurrentVars
       /\ UNCHANGED validatorVars

\* OntoGenesisAgent.load_ontology
load_ontology ==
    LET r == LoadFromJson(graph, file)
    IN /\ graph' = r.graph
       /\ outcome' = IF r.exc = "none" THEN Returned(None) ELSE Raised(r.exc, << >>)
       /\ last' = [op |-> "load_ontology", exc |-> r.exc,
                   case |-> IF file = None THEN "missing"
                            ELSE IF r.exc # "none" THEN "failed"
                            ELSE IF \/ graph.nodes \ r.graph.nodes # {}
                                    \/ Edges(graph) \ Edges(r.graph) # {}
                            THEN "replaced"
                            ELSE "loaded"]
       /\ UNCHANGED file
       /\ UNCHANGED agentVars
       /\ UNCHANGED sandboxVars
       /\ UNCHANGED concurrentVars
       /\ UNCHANGED validatorVars

\* Another program writes the file at the path.
write_file(c) ==
    /\ file' = Some(c)
    /\ last' = [op |-> "write_file", exc |-> "none", case |-> "none"]
    /\ UNCHANGED <<graph, outcome>>
    /\ UNCHANGED agentVars
    /\ UNCHANGED sandboxVars
    /\ UNCHANGED concurrentVars
    /\ UNCHANGED validatorVars

NextStore ==
    \/ \E name \in StoreTypes, s \in StoreSchemas : register_type(name, s)
    \/ \E tool \in StoreTools : register_tool(tool)
    \/ save_ontology
    \/ load_ontology
    \/ \E c \in ForeignContents : write_file(c)

SpecStore == Init /\ [][NextStore]_vars

\* ------------------------------------------------------------------ agent

\* Graphs an agent is set up with by register_type / register_tool: two
\* registered types; the same with a tool between them; three registered types
\* chained by two tools; and two registered types plus a tool whose endpoints
\* were never registered.
TwoTypes == AddType(AddType(EmptyGraph, "TypeA", "S1"), "TypeB", "S2")

AgentGraphs ==
    { TwoTypes,
      AddTool(TwoTypes, Tool("t1", "TypeA", "TypeB")),
      AddTool(AddTool(AddType(TwoTypes, "TypeC", "S1"),
                      Tool("t1", "TypeA", "TypeC")), Tool("t2", "TypeC", "TypeB")),
      AddTool(TwoTypes, Tool("t1", "TypeC", "TypeA")) }

InitAgent ==
    /\ graph \in AgentGraphs
    /\ outcome = Returned(None)
    /\ runner \in {"local", "docker"}
    /\ AgentIdle
    /\ StoreIdle
    /\ SandboxIdle
    /\ ConcurrentIdle
    /\ ValidatorIdle

\* Mutant of NextIteration: the failed attempt is run again under the same
\* attempt number.
NextIteration_SameAttempt ==
    /\ attempts' = attempts + 1
    /\ pc' = "synthesize"
    /\ UNCHANGED <<attempt, outcome>>

\* The loop goes on to its next iteration, or, the range used up, solve_task
\* falls off its end and returns None.
NextIteration ==
    IF attempt + 1 \in LoopRange(task.max_retries)
    THEN /\ attempt' = attempt + 1
         /\ attempts' = attempts + 1
         /\ pc' = "synthesize"
         /\ UNCHANGED outcome
    ELSE /\ pc' = "done"
         /\ outcome' = Returned(None)
         /\ UNCHANGED <<attempt, attempts>>

\* The failed attempt as hist keeps it.
FailedAttempt(text) ==
    [thisCode |-> None, thisValue |-> None, prevCode |-> hist.thisCode,
     prevErr |-> Some(text), failures |-> hist.failures + 1]

\* Mutant of HandleException: the terminal error is built from the feedback
\* of the attempt before.
HandleException_EarlierFeedback(text) ==
    /\ feedback' = Some(text)
    /\ hist' = FailedAttempt(text)
    /\ IF IsLastAttempt(attempt, task.max_retries)
       THEN /\ pc' = "done"
            /\ outcome' = Raised("RuntimeError",
                                 ExhaustedMessage(task.max_retries,
                                     IF feedback = None THEN text ELSE feedback[1]))
            /\ UNCHANGED <<attempt, attempts>>
       ELSE NextIteration
    /\ UNCHANGED graph

\* except Exception as e: feedback = str(e); raise on the last attempt.
HandleException(text) ==
    /\ feedback' = Some(text)
    /\ hist' = FailedAttempt(text)
    /\ IF IsLastAttempt(attempt, task.max_retries)
       THEN /\ pc' = "done"
            /\ outcome' = Raised("RuntimeError",
                                 ExhaustedMessage(task.max_retries, text))
            /\ UNCHANGED <<attempt, attempts>>
       ELSE NextIteration
    /\ UNCHANGED graph

\* Mutant of ReturnResult: the function ends without returning the result.
ReturnResult_None(r) ==
    /\ pc' = "done"
    /\ outcome' = Returned(None)
    /\ UNCHANGED graph

\* Mutant of ReturnResult: the transformation that passed is registered as a
\* tool between the two types.
ReturnResult_RegistersTool(r) ==
    /\ pc' = "done"
    /\ outcome' = Returned(r)
    /\ graph' = AddTool(graph, Tool("transform", task.start_type, task.target_type))

\* return result
ReturnResult(r) ==
    /\ pc' = "done"
    /\ outcome' = Returned(r)
    /\ UNCHANGED graph

\* Mutant of NoGap: a path between the types is not looked at.
NoGap_Never(gap_result) == FALSE

\* if not gap_result["gap"]
NoGap(gap_result) == ~gap_result.gap

\* solve_task up to its first attempt: gap detection, then the loop is entered.
solve_task(start_type, target_type, verification_fn, max_retries) ==
    /\ pc = "idle"
    /\ task' = [start_type |-> start_type, target_type |-> target_type,
                max_retries |-> max_retries, verification_fn |-> verification_fn]
    /\ \E gap_result \in DetectGap(graph, start_type, target_type) :
          IF gap_result.exc # "none"
          THEN /\ pc' = "done"
               /\ outcome' = Raised(gap_result.exc, << >>)
               /\ UNCHANGED <<attempt, attempts>>
          ELSE IF NoGap(gap_result)
          THEN /\ pc' = "done"
               /\ outcome' = Raised("NotImplementedError",
                                    <<"Multi-step execution not yet implemented.">>)
               /\ UNCHANGED <<attempt, attempts>>
          ELSE IF 0 \in LoopRange(max_retries)
          THEN /\ pc' = "synthesize"
               /\ attempt' = 0
               /\ attempts' = 1
               /\ UNCHANGED outcome
          ELSE /\ pc' = "done"
               /\ outcome' = Returned(None)
               /\ UNCHANGED <<attempt, attempts>>
    /\ current_code' = None
    /\ feedback' = None
    /\ UNCHANGED <<graph, runner, result, genCalls, execCalls, prompt, hist>>
    /\ UNCHANGED storeVars
    /\ UNCHANGED sandboxVars
    /\ UNCHANGED concurrentVars
    /\ UNCHANGED validatorVars

\* _synthesize_tool: the schema lookups, the prompt, generate, extraction.
synthesize ==
    /\ pc = "synthesize"
    /\ LET a == SchemaLookup(graph, task.start_type)
           b == SchemaLookup(graph, task.target_type)
       IN IF ~a.ok \/ ~b.ok
          THEN /\ HandleException(IF ~a.ok THEN a.error ELSE b.error)
               /\ UNCHANGED <<current_code, genCalls, prompt>>
          ELSE /\ prompt' = Some(BuildPrompt(task.start_type, a.schema,
                                             task.target_type, b.schema,
                                             feedback, current_code))
               /\ genCalls' = genCalls + 1
               /\ \E g \in GenerateOutcomes :
                     IF g.ok
                     THEN /\ current_code' = Some(extract_code_block(g.text))
                          /\ hist' = [hist EXCEPT !.thisCode = current_code']
                          /\ pc' = "execute"
                          /\ UNCHANGED <<attempt, attempts, feedback, outcome, graph>>
                     ELSE /\ HandleException(g.error)
                          /\ UNCHANGED current_code
    /\ UNCHANGED <<runner, task, result, execCalls>>
    /\ UNCHANGED storeVars
    /\ UNCHANGED sandboxVars
    /\ UNCHANGED concurrentVars
    /\ UNCHANGED validatorVars

\* Mutant of execute: with the docker runner the schema-based verification is
\* chosen before the predicate of the caller is looked at.
execute_SchemaFirst ==
    /\ pc = "execute"
    /\ execCalls' = execCalls + 1
    /\ \E r \in RunCodeOutcomes(runner, current_code[1]) :
          IF r.ok
          THEN /\ result' = r.value
               /\ hist' = [hist EXCEPT !.thisValue = r.value]
               /\ UNCHANGED <<attempt, attempts, feedback>>
               /\ IF runner = "docker"
                  THEN pc' = "verify_schema" /\ UNCHANGED <<outcome, graph>>
                  ELSE IF task.verification_fn
                  THEN pc' = "verify_fn" /\ UNCHANGED <<outcome, graph>>
                  ELSE ReturnResult(r.value)
          ELSE /\ HandleException(r.error)
               /\ UNCHANGED result
    /\ UNCHANGED <<runner, task, current_code, genCalls, prompt>>
    /\ UNCHANGED storeVars
    /\ UNCHANGED sandboxVars
    /\ UNCHANGED concurrentVars
    /\ UNCHANGED validatorVars

\* Mutant of execute: the predicate of the caller is called after a run_code
\* that raised, too.
execute_VerifiesAfterFailure ==
    /\ pc = "execute"
    /\ execCalls' = execCalls + 1
    /\ \E r \in RunCodeOutcomes(runner, current_code[1]) :
          IF r.ok
          THEN /\ result' = r.value
               /\ hist' = [hist EXCEPT !.thisValue = r.value]
               /\ UNCHANGED <<attempt, attempts, feedback>>
               /\ IF task.verification_fn
                  THEN pc' = "verify_fn" /\ UNCHANGED <<outcome, graph>>
                  ELSE IF runner = "docker"
                  THEN pc' = "verify_schema" /\ UNCHANGED <<outcome, graph>>
                  ELSE ReturnResult(r.value)
          ELSE IF task.verification_fn
          THEN /\ pc' = "verify_fn"
               /\ UNCHANGED <<attempt, attempts, feedback, hist, outcome, graph, result>>
          ELSE /\ HandleException(r.error)
               /\ UNCHANGED result
    /\ UNCHANGED <<runner, task, current_code, genCalls, prompt>>
    /\ UNCHANGED storeVars
    /\ UNCHANGED sandboxVars
    /\ UNCHANGED concurrentVars
    /\ UNCHANGED validatorVars

\* _execute_tool, and the choice of the verification that follows it.
execute ==
    /\ pc = "execute"
    /\ execCalls' = execCalls + 1
    /\ \E r \in RunCodeOutcomes(runner, current_code[1]) :
          IF r.ok
          THEN /\ result' = r.value
               /\ hist' = [hist EXCEPT !.thisValue = r.value]
               /\ UNCHANGED <<attempt, attempts, feedback>>
               /\ IF task.verification_fn
                  THEN pc' = "verify_fn" /\ UNCHANGED <<outcome, graph>>
                  ELSE IF runner = "docker"
                  THEN pc' = "verify_schema" /\ UNCHANGED <<outcome, graph>>
                  ELSE ReturnResult(r.value)
          ELSE /\ HandleException(r.error)
               /\ UNCHANGED result
    /\ UNCHANGED <<runner, task, current_code, genCalls, prompt>>
    /\ UNCHANGED storeVars
    /\ UNCHANGED sandboxVars
    /\ UNCHANGED concurrentVars
    /\ UNCHANGED validatorVars

\* verification_fn(result)
verify_fn ==
    /\ pc = "verify_fn"
    /\ \E v \in VerificationFnOutcomes :
          IF v.ok
          THEN /\ ReturnResult(result)
               /\ UNCHANGED <<attempt, attempts, feedback, hist>>
          ELSE HandleException(v.error)
    /\ UNCHANGED <<runner, task, current_code, result, genCalls,
                   execCalls, prompt>>
    /\ UNCHANGED storeVars
    /\ UNCHANGED sandboxVars
    /\ UNCHANGED concurrentVars
    /\ UNCHANGED validatorVars

\* test_generator.generate_test_code and runner.verify_result
verify_schema ==
    /\ pc = "verify_schema"
    /\ \E v \in VerifyResultOutcomes :
          IF v.ok
          THEN /\ ReturnResult(result)
               /\ UNCHANGED <<attempt, attempts, feedback, hist>>
          ELSE HandleException(v.error)
    /\ UNCHANGED <<runner, task, current_code, result, genCalls,
                   execCalls, prompt>>
    /\ UNCHANGED storeVars
    /\ UNCHANGED sandboxVars
    /\ UNCHANGED concurrentVars
    /\ UNCHANGED validatorVars

Next ==
    \/ /\ pc = "idle"
       /\ \E start_type \in Types, target_type \in Types, verification_fn \in BOOLEAN,
             max_retries \in (-1)..MaxRetriesBound :
             solve_task(start_type, target_type, verification_fn, max_retries)
    \/ synthesize
    \/ execute
    \/ verify_fn
    \/ verify_schema
    \/ (pc = "idle" /\ save_ontology)

Spec == InitAgent /\ [][Next]_vars

\* -------------------------------------------------------------- sandboxes
\* CodeRunner.run_code, DockerRunner.run_code and DockerRunner.verify_result as
\* functions of what the payload, the container and the docker daemon do.  Each
\* yields the call's outcome, what each of its tracer.end_span calls reported,
\* and the containers and temporary directories it leaves behind; and
\* CodeRunner.run_code the steps it made on the payload, in their order.

Done(o, reports, left) ==
    [outcome |-> o, reports |-> reports, containers_left |-> left, dirs_left |-> 0,
     steps |-> << >>]

\* The steps of CodeRunner.run_code: exec(code, scope, scope), entry_point not
\* in scope, callable(func), func(**kwargs).
LocalSteps == <<"exec", "in scope", "callable", "call">>

\* Done, after the first n steps of CodeRunner.run_code.
DoneAt(n, o, reports) == [Done(o, reports, 0) EXCEPT !.steps = SubSeq(LocalSteps, 1, n)]

\* A payload: the text exec(code) raises with (None: it defines), what the
\* scope holds under the entry point (nothing, a value that is not callable,
\* a function), the text the function raises with (None: it returns) and the
\* value it returns.  What is raised is an Exception.  The function can also
\* leave something behind when it is called (writes) and look for what an
\* earlier payload left (reads): a name in the scope it is defined in, a file
\* on the filesystem it runs on, an attribute of an imported module.
Payload(define_error, entry, call_error, value) ==
    [define_error |-> define_error, entry |-> entry, call_error |-> call_error,
     value |-> value, writes |-> "nothing", reads |-> "nothing"]

\* A payload whose function leaves something behind and returns value1, or
\* returns whether it found what it looked for.
Probe(writes, reads) ==
    [define_error |-> None, entry |-> "function", call_error |-> None,
     value |-> IF reads = "nothing" THEN "value1" ELSE "unseen",
     writes |-> writes, reads |-> reads]

\* The payload as it behaves where env is what it can find.
Observe(p, env) ==
    [p EXCEPT !.value = IF p.reads = "nothing" THEN @
                        ELSE IF p.reads \in env THEN "seen" ELSE "unseen"]

Payloads ==
    { Payload(Some(<<"boom">>), "absent", None, "value1"),
      Payload(Some(<<"Entry point transform is not callable.">>), "function", None, "value1"),
      Payload(Some(<<"boom">>), "value", None, "value1"),
      Payload(Some(<<"boom">>), "function", Some(<<"later">>), "value1"),
      Payload(None, "absent", None, "value1"),
      Payload(None, "value", None, "value1"),
      Payload(None, "function", Some(<<"boom">>), "value1"),
      Payload(None, "function",
              Some(<<"Entry point transform not found in executed code.">>), "value1"),
      Payload(None, "function", Some(<<"Failed to define code:", "boom">>), "value1"),
      Payload(None, "function", None, "value1"),
      Payload(None, "function", None, "value2") }

\* Mutant of RunCodeLocal: no callable check, the call of a value that is not
\* callable failing as any call does.
RunCodeLocal_NoCallableCheck(p) ==
    IF p.define_error # None
    THEN DoneAt(1, Raised("RuntimeError", <<"Failed to define code:">> \o p.define_error[1]),
                << <<"Definition failed:">> \o p.define_error[1] >>)
    ELSE IF p.entry = "absent"
    THEN DoneAt(2, Raised("ValueError", <<"Entry point transform not found in executed code.">>),
                << <<"Entry point transform not found">> >>)
    ELSE IF p.entry = "value"
    THEN DoneAt(4, Raised("RuntimeError", <<"Failed to execute entry point transform:",
                                         "object is not callable">>),
                << <<"Execution failed:", "object is not callable">> >>)
    ELSE IF p.call_error # None
    THEN DoneAt(4, Raised("RuntimeError",
                          <<"Failed to execute entry point transform:">> \o p.call_error[1]),
                << <<"Execution failed:">> \o p.call_error[1] >>)
    ELSE DoneAt(4, Returned(Some(p.value)), << <<"Execution successful">> >>)

\* Mutant of RunCodeLocal: the entry point is looked up before the error of
\* the definition is looked at.
RunCodeLocal_LookupFirst(p) ==
    IF p.entry = "absent"
    THEN DoneAt(2, Raised("ValueError", <<"Entry point transform not found in executed code.">>),
                << <<"Entry point transform not found">> >>)
    ELSE IF p.define_error # None
    THEN DoneAt(1, Raised("RuntimeError", <<"Failed to define code:">> \o p.define_error[1]),
                << <<"Definition failed:">> \o p.define_error[1] >>)
    ELSE IF p.entry = "value"
    THEN DoneAt(3, Raised("ValueError", <<"Entry point transform is not callable.">>),
                << <<"Entry point transform is not callable">> >>)
    ELSE IF p.call_error # None
    THEN DoneAt(4, Raised("RuntimeError",
                          <<"Failed to execute entry point transform:">> \o p.call_error[1]),
                << <<"Execution failed:">> \o p.call_error[1] >>)
    ELSE DoneAt(4, Returned(Some(p.value)), << <<"Execution successful">> >>)

\* CodeRunner.run_code
RunCodeLocal(p) ==
    IF p.define_error # None
    THEN DoneAt(1, Raised("RuntimeError", <<"Failed to define code:">> \o p.define_error[1]),
                << <<"Definition failed:">> \o p.define_error[1] >>)
    ELSE IF p.entry = "absent"
    THEN DoneAt(2, Raised("ValueError", <<"Entry point transform not found in executed code.">>),
                << <<"Entry point transform not found">> >>)
    ELSE IF p.entry = "value"
    THEN DoneAt(3, Raised("ValueError", <<"Entry point transform is not callable.">>),
                << <<"Entry point transform is not callable">> >>)
    ELSE IF p.call_error # None
    THEN DoneAt(4, Raised("RuntimeError",
                          <<"Failed to execute entry point transform:">> \o p.call_error[1]),
                << <<"Execution failed:">> \o p.call_error[1] >>)
    ELSE DoneAt(4, Returned(Some(p.value)), << <<"Execution successful">> >>)

\* A container run: whether docker starts it ("api_error": containers.run
\* raises something other than ContainerError, with text error), its exit
\* status, its error-channel text, and what it printed: JSON text of a value,
\* or other text.
Run(start, exit, stderr, json, value, output) ==
    [start |-> start, error |-> <<"daemon unreachable">>, exit |-> exit,
     stderr |-> stderr, json |-> json, value |-> value, output |-> output]

DockerRuns ==
    { Run("api_error", 0, << >>, FALSE, "value1", << >>),
      Run("ok", 1, <<"ERROR:", "boom">>, FALSE, "value1", << >>),
      Run("ok", 1, << >>, FALSE, "value1", << >>),
      Run("ok", 0, << >>, TRUE, "value1", << >>),
      Run("ok", 0, << >>, TRUE, "value2", << >>),
      Run("ok", 0, << >>, FALSE, "value1", <<"debug line", "value1">>),
      Run("ok", 0, << >>, FALSE, "value1", << >>) }

\* str(e) of a ContainerError
ContainerErrorText == <<"Command returned non-zero exit status">>

\* DockerRunner.run_code.  The container is run with remove=True.  The
\* RuntimeError of an output that is not JSON is raised inside the outer try,
\* whose except Exception clause ends a span again and wraps it again.
RunCodeDocker(run) ==
    IF run.start = "api_error"
    THEN Done(Raised("RuntimeError", <<"Docker execution failed:">> \o run.error),
              << run.error >>, 0)
    ELSE IF run.exit # 0
    THEN LET error_msg == IF run.stderr # << >> THEN run.stderr ELSE ContainerErrorText
         IN Done(Raised("RuntimeError", <<"Container execution failed:">> \o error_msg),
                 << <<"Container error:">> \o error_msg >>, 0)
    ELSE IF run.json
    THEN Done(Returned(Some(run.value)), << <<"Execution successful">> >>, 0)
    ELSE LET inner == <<"Execution failed (Invalid JSON):">> \o run.output
         IN Done(Raised("RuntimeError", <<"Docker execution failed:">> \o inner),
                 << <<"Invalid JSON output:">> \o run.output, inner >>, 0)

\* A verification: how the pytest container run with remove=True ends ("pass",
\* "fail": ContainerError, "api_error"), and for the second, detached container
\* that is run after a failure: whether wait, logs and remove return, and the
\* status wait returns.
Verification(first, wait_ok, status, logs_ok, remove_ok) ==
    [first |-> first, error |-> <<"daemon unreachable">>, wait_ok |-> wait_ok,
     status |-> status, logs_ok |-> logs_ok, remove_ok |-> remove_ok,
     logs |-> <<"1 failed">>]

Verifications ==
    { Verification("pass", TRUE, 0, TRUE, TRUE),
      Verification("api_error", TRUE, 0, TRUE, TRUE),
      Verification("fail", TRUE, 1, TRUE, TRUE),
      Verification("fail", TRUE, 0, TRUE, TRUE),
      Verification("fail", FALSE, 1, TRUE, TRUE),
      Verification("fail", TRUE, 1, FALSE, TRUE),
      Verification("fail", TRUE, 1, TRUE, FALSE) }

\* DockerRunner.verify_result.  What is raised inside the ContainerError
\* handler leaves the function as it is: no other clause of the try sees it.
VerifyResult(v) ==
    IF v.first = "pass"
    THEN Done(Returned(Some("True")), << <<"Verification passed">> >>, 0)
    ELSE IF v.first = "api_error"
    THEN Done(Raised("RuntimeError", <<"Docker verification failed:">> \o v.error),
              << v.error >>, 0)
    ELSE IF ~v.wait_ok \/ ~v.logs_ok \/ ~v.remove_ok
    THEN Done(Raised("APIError", v.error), << >>, 1)
    ELSE IF v.status # 0
    THEN Done(Raised("RuntimeError", <<"Verification failed:">> \o v.logs),
              << <<"Verification failed:">> \o v.logs >>, 0)
    ELSE Done(Returned(Some("True")), << <<"Verification passed">> >>, 0)

\* tracer.end_span once per report: each pops the innermost open span, and
\* does nothing when no span is open.
RECURSIVE AfterEndSpans(_, _)
AfterEndSpans(stack, reports) ==
    IF reports = << >> \/ stack = << >> THEN stack
    ELSE AfterEndSpans(SubSeq(stack, 1, Len(stack) - 1), Tail(reports))

RECURSIVE EndedSpans(_, _)
EndedSpans(stack, reports) ==
    IF reports = << >> \/ stack = << >> THEN << >>
    ELSE <<[span |-> stack[Len(stack)], report |-> Head(reports)]>>
         \o EndedSpans(SubSeq(stack, 1, Len(stack) - 1), Tail(reports))

\* A runner call: tracer.start_span(name), then what the call does.
RunnerCall(op, name, input, r) ==
    /\ containers <= MaxContainers
    /\ Len(span_stack) <= MaxSpans
    /\ call' = [op |-> op, input |-> input, steps |-> r.steps]
    /\ outcome' = r.outcome
    /\ span_stack' = AfterEndSpans(Append(span_stack, name), r.reports)
    /\ span_ended' = EndedSpans(Append(span_stack, name), r.reports)
    /\ containers' = containers + r.containers_left
    /\ temp_dirs' = temp_dirs + r.dirs_left
    /\ UNCHANGED graph
    /\ UNCHANGED agentVars
    /\ UNCHANGED storeVars
    /\ UNCHANGED concurrentVars
    /\ UNCHANGED validatorVars

\* The payload is run by exec in the agent's own process, in a scope of its
\* own: it finds what the process and its filesystem hold.
CodeRunner_run_code(p) ==
    /\ RunnerCall("CodeRunner.run_code", "run_code", Observe(p, {} \cup host),
                  RunCodeLocal(Observe(p, {} \cup host)))
    /\ host' = host \cup IF p.define_error = None /\ p.entry = "function"
                         THEN {p.writes} \cap {"file", "module"}
                         ELSE {}

\* The container is created from the image and removed, its one mount the
\* temporary directory of the call: nothing of it is left on the host.
DockerRunner_run_code(run) ==
    /\ RunnerCall("DockerRunner.run_code", "run_code_docker", run, RunCodeDocker(run))
    /\ UNCHANGED host

DockerRunner_verify_result(v) ==
    /\ RunnerCall("DockerRunner.verify_result", "verify_result_docker", v, VerifyResult(v))
    /\ UNCHANGED host

\* The runner is called from solve_task, whose span is open, or on its own.
InitSandbox ==
    /\ graph = EmptyGraph
    /\ outcome = Returned(None)
    /\ runner \in {"local", "docker"}
    /\ AgentIdle
    /\ StoreIdle
    /\ call = NoCall
    /\ span_stack \in {<< >>, <<"solve_task">>}
    /\ span_ended = << >>
    /\ containers = 0
    /\ temp_dirs = 0
    /\ host = {}
    /\ ConcurrentIdle
    /\ ValidatorIdle

NextSandbox ==
    \/ \E p \in Payloads \cup {Probe(w, "nothing") : w \in {"name", "file", "module"}}
                         \cup {Probe("nothing", r) : r \in {"name", "file", "module"}} :
          runner = "local" /\ CodeRunner_run_code(p)
    \/ \E run \in DockerRuns : runner = "docker" /\ DockerRunner_run_code(run)
    \/ \E v \in Verifications : runner = "docker" /\ DockerRunner_verify_result(v)

SpecSandbox == InitSandbox /\ [][NextSandbox]_vars

\* -------------------------------------------------- concurrent invocations
\* solve_task called more than once at a time on one agent.  Each invocation
\* has its own arguments and local variables (attempt, current_code,
\* feedback); the invocations share the graph and the tracer, a process-wide
\* singleton whose span stack is a list no lock protects.  What the
\* collaborators and the trace file do at each attempt of an invocation is the
\* plan of the invocation.

\* What generate returns to invocation i at attempt k.
SessionResponse(i, k) ==
    <<FencePython, "code of", i,
      <<"attempt0", "attempt1", "attempt2", "attempt3">>[k + 1], Fence>>

\* str(e) of what fails in invocation i.
SessionError(i, kind) ==
    IF kind = "generate fails" THEN <<"generate failed", i>>
    ELSE IF kind = "run fails" THEN <<"Failed to execute entry point transform:", i>>
    ELSE <<"[Errno 28] No space left on device", i>>

\* Tracer.start_span up to its append: the span is pushed on the stack.  A
\* no-op tracer keeps no stack.
start_span(mode, stack, span) ==
    IF mode = "records" THEN Append(stack, span) ELSE stack

\* Tracer.end_span: the innermost open span is popped, whoever opened it;
\* nothing is done when no span is open.
end_span(mode, stack) ==
    IF mode = "records" /\ stack # << >>
    THEN SubSeq(stack, 1, Len(stack) - 1)
    ELSE stack

\* An invocation and the span stack after a step of the invocation.
After(s, stack) == [session |-> s, stack |-> stack]

\* solve_task is entered: tracer.start_span appends the span and evaluates
\* len(self.span_stack) > 1.
SessionCall(i, t, stack, mode) ==
    LET opened == start_span(mode, stack, <<"solve_task", i>>)
    IN After([IdleSession EXCEPT !.task = t, !.pc = "start_span",
                                 !.parent = (mode = "records" /\ Len(opened) > 1)],
             opened)

\* The rest of tracer.start_span, self.span_stack[-2] where a parent was seen,
\* and solve_task up to its first attempt.
SessionEnter(G, s, i, stack, mode) ==
    LET t == s.task
        gap_result == CHOOSE g \in DetectGap(G, t.start_type, t.target_type) : TRUE
    IN IF s.parent /\ Len(stack) < 2
       THEN After([s EXCEPT !.pc = "done",
                            !.outcome = Raised("IndexError", <<"list index out of range">>)],
                  stack)
       ELSE IF gap_result.exc # "none"
       THEN After([s EXCEPT !.pc = "done", !.outcome = Raised(gap_result.exc, << >>)],
                  start_span(mode, stack, <<"detect_gap", i>>))
       ELSE IF NoGap(gap_result)
       THEN After([s EXCEPT !.pc = "done",
                            !.outcome = Raised("NotImplementedError",
                                <<"Multi-step execution not yet implemented.">>)],
                  end_span(mode, stack))
       ELSE IF 0 \in LoopRange(t.max_retries)
       THEN After([s EXCEPT !.pc = "synthesize", !.attempts = 1], stack)
       ELSE After([s EXCEPT !.pc = "done"], stack)

\* except Exception as e, in an invocation.
AttemptFailed(s, text, stack, mode) ==
    LET failed == [s EXCEPT !.feedback = Some(text)]
    IN IF IsLastAttempt(s.attempt, s.task.max_retries)
       THEN After([failed EXCEPT !.pc = "done",
                                 !.outcome = Raised("RuntimeError",
                                     ExhaustedMessage(s.task.max_retries, text))],
                  end_span(mode, stack))
       ELSE IF s.attempt + 1 \in LoopRange(s.task.max_retries)
       THEN After([failed EXCEPT !.pc = "synthesize", !.attempt = @ + 1,
                                 !.attempts = @ + 1], stack)
       ELSE After([failed EXCEPT !.pc = "done", !.outcome = Returned(None)], stack)

\* One step of an invocation: the rest of solve_task's start, _synthesize_tool,
\* or _execute_tool and the return of its result.  tracer.end_span before the
\* return is called inside the try: what it raises is an attempt's failure.
SessionStep(G, s, i, stack, mode) ==
    IF s.pc = "start_span" THEN SessionEnter(G, s, i, stack, mode)
    ELSE IF s.pc = "synthesize"
    THEN LET a == SchemaLookup(G, s.task.start_type)
             b == SchemaLookup(G, s.task.target_type)
         IN IF ~a.ok \/ ~b.ok
            THEN AttemptFailed(s, IF ~a.ok THEN a.error ELSE b.error, stack, mode)
            ELSE LET request == BuildPrompt(s.task.start_type, a.schema,
                                            s.task.target_type, b.schema,
                                            s.feedback, s.current_code)
                     asked == [s EXCEPT !.requests = Append(@, request)]
                 IN IF s.task.plan[s.attempt + 1] = "generate fails"
                    THEN AttemptFailed(asked, SessionError(i, "generate fails"), stack, mode)
                    ELSE After([asked EXCEPT
                                   !.current_code =
                                       Some(extract_code_block(SessionResponse(i, s.attempt))),
                                   !.pc = "execute"], stack)
    ELSE IF s.pc = "execute"
    THEN LET kind == s.task.plan[s.attempt + 1]
         IN IF kind = "run fails"
            THEN AttemptFailed(s, SessionError(i, kind), stack, mode)
            ELSE IF kind = "passes, trace write fails" /\ mode = "records"
            THEN AttemptFailed(s, SessionError(i, kind), end_span(mode, stack), mode)
            ELSE After([s EXCEPT !.pc = "done", !.outcome = Returned(Some("value1"))],
                       end_span(mode, stack))
    ELSE After(s, stack)

\* The calls made: a task with a gap, with every plan of its attempts, and a
\* task between types that have a path.  An attempt: generate raises; run_code
\* raises; the attempt passes; or it passes and the write of its span_end
\* entry to the trace file fails.
SessionTasks ==
    UNION { { [start_type |-> "TypeA", target_type |-> "TypeB",
               max_retries |-> mr, plan |-> p] :
              p \in [1..(mr + 1) -> {"generate fails", "run fails", "passes",
                                     "passes, trace write fails"}] } :
            mr \in 0..MaxSessionRetries }
    \cup { [start_type |-> "TypeA", target_type |-> "TypeA", max_retries |-> 0,
            plan |-> <<"passes">>] }

SessionFrame ==
    /\ UNCHANGED <<graph, outcome, tracing>>
    /\ UNCHANGED agentVars
    /\ UNCHANGED storeVars
    /\ UNCHANGED <<call, span_ended, containers, temp_dirs, host>>
    /\ UNCHANGED validatorVars

\* A step of invocation i on its own variables and the shared tracer.
SessionAdvance(i) ==
    /\ LET r == SessionStep(graph, sessions[i], i, span_stack, tracing)
       IN /\ sessions' = [sessions EXCEPT ![i] = [r.session EXCEPT !.steps = @ + 1]]
          /\ span_stack' = r.stack
    /\ SessionFrame

\* solve_task is called while another invocation may be running.
session_solve_task(i, t) ==
    /\ sessions[i].pc = "idle"
    /\ LET r == SessionCall(i, t, span_stack, tracing)
       IN /\ sessions' = [sessions EXCEPT ![i] = r.session]
          /\ span_stack' = r.stack
    /\ SessionFrame

session_start_span(i) ==
    /\ sessions[i].pc = "start_span"
    /\ SessionAdvance(i)

session_synthesize(i) ==
    /\ sessions[i].pc = "synthesize"
    /\ SessionAdvance(i)

session_execute(i) ==
    /\ sessions[i].pc = "execute"
    /\ SessionAdvance(i)

\* An agent with two registered types, whose tracer records or is a no-op.
InitSessions ==
    /\ graph = TwoTypes
    /\ outcome = Returned(None)
    /\ runner = "local"
    /\ AgentIdle
    /\ StoreIdle
    /\ SandboxIdle
    /\ sessions = [i \in Invocations |-> IdleSession]
    /\ tracing \in {"records", "noop"}
    /\ ValidatorIdle

NextSessions ==
    \/ \E i \in Invocations, t \in SessionTasks : session_solve_task(i, t)
    \/ \E i \in Invocations : session_start_span(i)
    \/ \E i \in Invocations : session_synthesize(i)
    \/ \E i \in Invocations : session_execute(i)

SpecSessions == InitSessions /\ [][NextSessions]_vars

\* ------------------------------------------------------- schema validation
\* The test code TestGenerator.generate_test_code writes: validate_schema and
\* test_output_schema, run on the value json.load reads from result.json.

\* A JSON value: its kind, and the text of a string, the elements of a list,
\* the key/value pairs of a dict in their order.
JValue(t, s, items, fields) == [t |-> t, s |-> s, items |-> items, fields |-> fields]

JInt == JValue("int", "1", << >>, << >>)

JStr(s) == JValue("str", s, << >>, << >>)

JList(xs) == JValue("list", "", xs, << >>)

JDict(fs) == JValue("dict", "", << >>, fs)

Field(k, v) == [key |-> k, value |-> v]

\* prop in data, data[prop]
HasKey(d, k) == \E n \in 1..Len(d.fields) : d.fields[n].key = k

Get(d, k) == d.fields[CHOOSE n \in 1..Len(d.fields) : d.fields[n].key = k].value

\* A schema: schema.get("type"), and "items" and "properties" where present.
Schema(type, items, properties) ==
    [type |-> type, items |-> items, properties |-> properties]

Prop(name, schema) == [name |-> name, schema |-> schema]

StringSchema == Schema(Some("string"), None, None)

ArrayOf(items) == Schema(Some("array"), items, None)

ObjectWith(properties) == Schema(Some("object"), None, properties)

\* {type: array, items: {type: object, properties: {subject: {type: string}}}}
SubjectArraySchema ==
    ArrayOf(Some(ObjectWith(Some(<<Prop("subject", StringSchema)>>))))

\* The schemas validated under, the schema of a list of triples among them.
ValidatedSchemas ==
    { SubjectArraySchema,
      ArrayOf(Some(ObjectWith(Some(<<Prop("subject", StringSchema),
                                     Prop("predicate", StringSchema),
                                     Prop("object", StringSchema)>>)))),
      ArrayOf(None), ArrayOf(Some(StringSchema)),
      ArrayOf(Some(ArrayOf(Some(StringSchema)))),
      ObjectWith(None),
      ObjectWith(Some(<<Prop("subject", StringSchema), Prop("predicate", Schema(Some("integer"), None, None))>>)),
      StringSchema, Schema(Some("integer"), None, None),
      Schema(Some("number"), None, None), Schema(None, None, None) }

\* The values validated: null, a bool, an int, strings, dicts, a list of
\* strings, and the lists of up to MaxItems of these.
ValidatedValues ==
    LET Elements ==
            { JStr("x"), JStr("subject predicate object"), JInt,
              JValue("null", "", << >>, << >>),
              JDict(<< >>),
              JDict(<<Field("subject", JStr("x"))>>),
              JDict(<<Field("subject", JInt)>>),
              JDict(<<Field("subject", JStr("x")), Field("extra", JInt)>>),
              JDict(<<Field("subject", JStr("x")), Field("predicate", JStr("x")),
                      Field("object", JStr("x"))>>),
              JList(<<JStr("subject"), JStr("predicate"), JStr("object")>>) }
    IN Elements \cup {JValue("bool", "true", << >>, << >>)}
       \cup UNION { {JList(xs) : xs \in [1..n -> Elements]} : n \in 0..MaxItems }

Pass == [ok |-> TRUE, error |-> ""]

Fail(error) == [ok |-> FALSE, error |-> error]

RECURSIVE validate_schema(_, _)

\* The verdict of the first element that fails, else Pass.
FirstFailure(verdicts) ==
    LET failing == {n \in 1..Len(verdicts) : ~verdicts[n].ok}
    IN IF failing = {} THEN Pass
       ELSE verdicts[CHOOSE n \in failing : \A k \in failing : n <= k]

\* Mutant of validate_schema: of a list only the first element is validated.
validate_schema_FirstItemOnly(data, schema) ==
    IF schema.type = Some("array")
    THEN IF data.t # "list" THEN Fail("Output must be a list")
         ELSE IF schema.items # None /\ data.items # << >>
         THEN validate_schema(data.items[1], schema.items[1])
         ELSE Pass
    ELSE IF schema.type = Some("object")
    THEN IF data.t # "dict" THEN Fail("Output must be a dictionary")
         ELSE IF schema.properties # None
         THEN LET props == schema.properties[1]
              IN FirstFailure([n \in 1..Len(props) |->
                                  IF HasKey(data, props[n].name)
                                  THEN validate_schema(Get(data, props[n].name),
                                                       props[n].schema)
                                  ELSE Pass])
         ELSE Pass
    ELSE IF schema.type = Some("string")
    THEN IF data.t = "str" THEN Pass ELSE Fail("Output must be a string")
    ELSE IF schema.type = Some("integer")
    THEN IF data.t \in {"int", "bool"} THEN Pass ELSE Fail("Output must be an integer")
    ELSE Pass

\* Mutant of validate_schema: a declared property that is absent is rejected.
validate_schema_RequiredProperties(data, schema) ==
    IF schema.type = Some("array")
    THEN IF data.t # "list" THEN Fail("Output must be a list")
         ELSE IF schema.items # None
         THEN FirstFailure([n \in 1..Len(data.items) |->
                               validate_schema(data.items[n], schema.items[1])])
         ELSE Pass
    ELSE IF schema.type = Some("object")
    THEN IF data.t # "dict" THEN Fail("Output must be a dictionary")
         ELSE IF schema.properties # None
         THEN LET props == schema.properties[1]
              IN FirstFailure([n \in 1..Len(props) |->
                                  IF HasKey(data, props[n].name)
                                  THEN validate_schema(Get(data, props[n].name),
                                                       props[n].schema)
                                  ELSE Fail("missing property")])
         ELSE Pass
    ELSE IF schema.type = Some("string")
    THEN IF data.t = "str" THEN Pass ELSE Fail("Output must be a string")
    ELSE IF schema.type = Some("integer")
    THEN IF data.t \in {"int", "bool"} THEN Pass ELSE Fail("Output must be an integer")
    ELSE Pass

\* validate_schema: an assert that fails ends the validation.  isinstance(data,
\* int) holds of a bool; a type tag that is none of the four accepts anything.
validate_schema(data, schema) ==
    IF schema.type = Some("array")
    THEN IF data.t # "list" THEN Fail("Output must be a list")
         ELSE IF schema.items # None
         THEN FirstFailure([n \in 1..Len(data.items) |->
                               validate_schema(data.items[n], schema.items[1])])
         ELSE Pass
    ELSE IF schema.type = Some("object")
    THEN IF data.t # "dict" THEN Fail("Output must be a dictionary")
         ELSE IF schema.properties # None
         THEN LET props == schema.properties[1]
              IN FirstFailure([n \in 1..Len(props) |->
                                  IF HasKey(data, props[n].name)
                                  THEN validate_schema(Get(data, props[n].name),
                                                       props[n].schema)
                                  ELSE Pass])
         ELSE Pass
    ELSE IF schema.type = Some("string")
    THEN IF data.t = "str" THEN Pass ELSE Fail("Output must be a string")
    ELSE IF schema.type = Some("integer")
    THEN IF data.t \in {"int", "bool"} THEN Pass ELSE Fail("Output must be an integer")
    ELSE Pass

\* word in v: a key of a dict, an element of a list, a substring of a string;
\* a TypeError for a value that is no container.
In(word, v) ==
    LET Substrings(s) ==
            IF s = "subject predicate object" THEN {"subject", "predicate", "object"}
            ELSE IF s \in {"subject", "predicate", "object"} THEN {s}
            ELSE {}
    IN IF v.t = "dict" THEN IF HasKey(v, word) THEN Pass ELSE Fail("AssertionError")
       ELSE IF v.t = "list"
       THEN IF \E n \in 1..Len(v.items) : v.items[n] = JStr(word)
            THEN Pass ELSE Fail("AssertionError")
       ELSE IF v.t = "str"
       THEN IF word \in Substrings(v.s) THEN Pass ELSE Fail("AssertionError")
       ELSE Fail("TypeError")

\* test_output_schema, result.json being the file verify_result wrote: the
\* generic validation, then for KGTriples len(result) > 0 and the three words
\* in each triple of result, which are the elements of a list, the keys of a
\* dict, the characters of a string.
TestOutputSchema(loaded, SCHEMA, target_type) ==
    LET generic == validate_schema(loaded, SCHEMA)
        triples ==
            IF loaded.t = "list" THEN loaded.items
            ELSE IF loaded.t = "dict"
            THEN [n \in 1..Len(loaded.fields) |-> JStr(loaded.fields[n].key)]
            ELSE IF loaded.s = "x" THEN <<JStr("x")>>
            ELSE <<JStr("s"), JStr("u"), JStr("b")>>
        words == <<"subject", "predicate", "object">>
    IN IF ~generic.ok THEN generic
       ELSE IF target_type # "KGTriples" THEN Pass
       ELSE IF loaded.t \notin {"list", "dict", "str"} THEN Fail("TypeError")
       ELSE IF Len(triples) = 0 THEN Fail("Knowledge Graph should not be empty")
       ELSE FirstFailure([n \in 1..Len(triples) |->
                             FirstFailure([w \in 1..3 |-> In(words[w], triples[n])])])

\* validate_schema is called on a value and a schema.
call_validate_schema(data, schema) ==
    /\ ValidatorIdle
    /\ validation' = [op |-> "validate_schema", data |-> data, schema |-> schema,
                      target_type |-> "", verdict |-> validate_schema(data, schema)]
    /\ UNCHANGED <<graph, outcome, conversion>>
    /\ UNCHANGED agentVars
    /\ UNCHANGED storeVars
    /\ UNCHANGED sandboxVars
    /\ UNCHANGED concurrentVars

\* pytest runs the test generated for a target type and its schema, in a
\* process of its own.
test_output_schema(loaded, schema, target_type) ==
    /\ ValidatorIdle
    /\ validation' = [op |-> "test_output_schema", data |-> loaded, schema |-> schema,
                      target_type |-> target_type,
                      verdict |-> TestOutputSchema(loaded, schema, target_type)]
    /\ UNCHANGED <<graph, outcome, conversion>>
    /\ UNCHANGED agentVars
    /\ UNCHANGED storeVars
    /\ UNCHANGED sandboxVars
    /\ UNCHANGED concurrentVars

NextValidator ==
    \/ /\ ValidatorIdle
       /\ \E data \in ValidatedValues, schema \in ValidatedSchemas :
             call_validate_schema(data, schema)
    \/ /\ ValidatorIdle
       /\ \E data \in ValidatedValues, schema \in ValidatedSchemas,
             target_type \in {"KGTriples", "TypeB"} :
             test_output_schema(data, schema, target_type)

SpecValidator == Init /\ [][NextValidator]_vars

\* ------------------------------------------------------------ conversions
\* extract_code_block on the responses of up to MaxTokens tokens, and the input
\* of DockerRunner.run_code as the wrapper script gets it.

call_extract_code_block(text) ==
    /\ ValidatorIdle
    /\ conversion' = [op |-> "extract_code_block", input |-> text,
                      output |-> extract_code_block(text)]
    /\ UNCHANGED <<graph, outcome, validation>>
    /\ UNCHANGED agentVars
    /\ UNCHANGED storeVars
    /\ UNCHANGED sandboxVars
    /\ UNCHANGED concurrentVars

\* The responses code is extracted from: up to MaxTokens fences and pieces
\* of code.
SpecExtract ==
    Init /\ [][/\ ValidatorIdle
                /\ \E text \in UNION { [1..n -> {FencePython, Fence, FenceOther,
                                                 "code1", "code2"}] : n \in 0..MaxTokens } :
                      call_extract_code_block(text)]_vars

\* json.dumps(input_data): the JSON text of a value, as the tree of its
\* literals.  None, True and False are written null, true and false.
RECURSIVE json_dumps(_)
json_dumps(v) ==
    [text |-> IF v.t = "null" THEN "null"
              ELSE IF v.t = "bool" THEN v.s
              ELSE IF v.t = "int" THEN v.s
              ELSE IF v.t = "str" THEN "[quoted]"
              ELSE IF v.t = "list" THEN "[array]"
              ELSE "[object]",
     s |-> v.s,
     items |-> [n \in 1..Len(v.items) |-> json_dumps(v.items[n])],
     fields |-> [n \in 1..Len(v.fields) |->
                    Field(v.fields[n].key, json_dumps(v.fields[n].value))]]

\* input_data = {input_json}: the JSON text evaluated as a Python expression
\* by the wrapper script.  Numbers, quoted strings, lists and dicts are Python
\* literals; null, true and false are names that are not defined.
RECURSIVE Evaluate(_)
Evaluate(j) ==
    LET items == [n \in 1..Len(j.items) |-> Evaluate(j.items[n])]
        fields == [n \in 1..Len(j.fields) |-> Evaluate(j.fields[n].value)]
    IN IF j.text \in {"null", "true", "false"} THEN Fail("NameError")
       ELSE IF \E n \in 1..Len(items) : ~items[n].ok THEN Fail("NameError")
       ELSE IF \E n \in 1..Len(fields) : ~fields[n].ok THEN Fail("NameError")
       ELSE [ok |-> TRUE, error |-> "",
             value |-> JValue(IF j.text = "[quoted]" THEN "str"
                              ELSE IF j.text = "[array]" THEN "list"
                              ELSE IF j.text = "[object]" THEN "dict"
                              ELSE "int",
                              j.s,
                              [n \in 1..Len(items) |-> items[n].value],
                              [n \in 1..Len(fields) |->
                                  Field(j.fields[n].key, fields[n].value)])]

\* DockerRunner.run_code up to the call of the entry point: the input is
\* written into the wrapper script as JSON text and evaluated there.
wrapper_input(input_data) ==
    /\ ValidatorIdle
    /\ conversion' = [op |-> "wrapper input", input |-> input_data,
                      output |-> Evaluate(json_dumps(input_data))]
    /\ UNCHANGED <<graph, outcome, validation>>
    /\ UNCHANGED agentVars
    /\ UNCHANGED storeVars
    /\ UNCHANGED sandboxVars
    /\ UNCHANGED concurrentVars

SpecWrapper ==
    Init /\ [][/\ ValidatorIdle
                /\ \E input_data \in ValidatedValues : wrapper_input(input_data)]_vars

\* ================================================================= claims
\* Definitions the claims are stated with (not part of the program).

\* The text needle occurs in the text hay.
Contains(hay, needle) ==
    \E i \in 0..(Len(hay) - Len(needle)) :
        SubSeq(hay, i + 1, i + Len(needle)) = needle

\* The call has ended with every attempt it made failed.
AllAttemptsFailed == pc = "done" /\ attempts >= 1 /\ hist.failures = attempts

\* The call has ended with its last attempt executed and verified.
LastAttemptPassed == pc = "done" /\ attempts >= 1 /\ hist.failures = attempts - 1

\* The exhausted-retries failure.
IsExhausted(o) ==
    /\ o.kind = "raised"
    /\ o.exc = "RuntimeError"
    /\ o.msg.retries = task.max_retries

\* The directed simple paths from s to t, as node sequences.
RECURSIVE PathsAvoiding(_, _, _, _)
PathsAvoiding(G, s, t, seen) ==
    IF s = t THEN {<<s>>}
    ELSE UNION {{<<s>> \o p : p \in PathsAvoiding(G, n, t, seen \cup {s})}
                : n \in Succ(G, s) \ (seen \cup {s})}

SimplePaths(G, s, t) ==
    IF s \notin G.nodes \/ t \notin G.nodes THEN {} ELSE PathsAvoiding(G, s, t, {})

PathExists(G, s, t) == SimplePaths(G, s, t) # {}

\* p is a sequence of nodes of G joined by edges of G.
IsPath(G, p) ==
    /\ \A i \in 1..Len(p) : p[i] \in G.nodes
    /\ \A i \in 1..(Len(p) - 1) : <<p[i], p[i + 1]>> \in Edges(G)

\* The graph that differs from G only by lacking edge e.
WithoutEdge(G, e) == [G EXCEPT !.tools = [x \in Edges(G) \ {e} |-> G.tools[x]]]

\* A type registered by add_type carries a schema.
Registered(G, n) == n \in G.nodes /\ G.attrs[n] # None

GapIs(G, s, t, b) == \A r \in DetectGap(G, s, t) : r.exc = "none" /\ r.gap = b

\* ------------------------------------------------------------------- C1

\* C1: in a solve_task call with max_retries >= 0, generate is called at most
\* max_retries + 1 times and run_code at most max_retries + 1 times.
C1_CallsBounded ==
    (pc # "idle" /\ task.max_retries >= 0) =>
        /\ genCalls <= task.max_retries + 1
        /\ execCalls <= task.max_retries + 1

\* A call that made max_retries + 1 calls of each, for a max_retries above 0.
C1_Witness ==
    /\ pc = "done"
    /\ task.max_retries >= 1
    /\ genCalls = task.max_retries + 1
    /\ execCalls = task.max_retries + 1

\* ------------------------------------------------------------------- C2

\* C2: a call that made attempts, all of them failed, has made exactly
\* max_retries + 1 attempts and ends raising the exhausted-retries error, whose
\* message carries the error text of its last attempt.
C2_ExhaustedAfterAllAttempts ==
    AllAttemptsFailed =>
        /\ attempts = task.max_retries + 1
        /\ IsExhausted(outcome)
        /\ outcome.msg.last_error = hist.prevErr[1]

\* Three failed attempts under max_retries = 2, the last failing with another
\* text than the attempt before (whose text the last prompt carries).
C2_Witness ==
    /\ AllAttemptsFailed
    /\ task.max_retries = 2
    /\ attempts = 3
    /\ prompt # None
    /\ Contains(prompt[1], <<"ERROR:">>)
    /\ ~Contains(prompt[1], hist.prevErr[1])

\* ------------------------------------------------------------------- C3

\* C3 as claimed: when attempt 0 generated code that failed and attempt 1
\* passed, the call returns, generate was called exactly twice, and the second
\* prompt contains the code and the error text of attempt 0.
C3_SecondPromptCarriesFirstAttempt ==
    (LastAttemptPassed /\ attempts = 2 /\ hist.prevCode # None) =>
        /\ outcome.kind = "returned"
        /\ genCalls = 2
        /\ Contains(prompt[1], hist.prevCode[1])
        /\ Contains(prompt[1], hist.prevErr[1])

\* ------------------------------------------------------------------- C4

\* C4: a call for which detect_gap reports gap=false ends raising
\* NotImplementedError, which is not the exhausted-retries error, with no
\* attempt made, no generate call and no run_code call.
C4_NoGapRejected ==
    (pc = "done" /\ GapIs(graph, task.start_type, task.target_type, FALSE)) =>
        /\ outcome.kind = "raised"
        /\ outcome.exc = "NotImplementedError"
        /\ outcome.exc # "RuntimeError"
        /\ attempts = 0 /\ genCalls = 0 /\ execCalls = 0

\* A call rejected for a path that runs over an intermediate type.
C4_Witness ==
    /\ pc = "done"
    /\ outcome.exc = "NotImplementedError"
    /\ task.start_type # task.target_type
    /\ <<task.start_type, task.target_type>> \notin Edges(graph)

\* ------------------------------------------------------------------- C5

\* C5: a call whose last attempt was executed and verified returns the value
\* that attempt's execution produced and can make no further generate or
\* run_code call; when that attempt is attempt 0, generate and run_code were
\* each called exactly once.
C5_ReturnsOnFirstSuccess ==
    LastAttemptPassed =>
        /\ hist.thisValue # None
        /\ outcome = Returned(hist.thisValue)
        /\ ~ENABLED synthesize /\ ~ENABLED execute
        /\ genCalls <= attempts /\ execCalls <= attempts
        /\ attempts = 1 => (genCalls = 1 /\ execCalls = 1)

\* A call that succeeded at attempt 1 after a failed attempt 0 that had
\* returned the other value, and was verified by the caller's predicate.
C5_Witness ==
    /\ LastAttemptPassed
    /\ attempts = 2
    /\ task.verification_fn
    /\ outcome.value = Some("value2")
    /\ genCalls = 2 /\ execCalls = 2


\* ------------------------------------------------------------------- C6

\* C6 as claimed: a direct edge a -> b gives gap=false, and the graph lacking
\* only that edge gives gap=true.
C6_RemovingEdgeAlwaysOpensGap ==
    \A e \in Edges(graph) :
        /\ GapIs(graph, e[1], e[2], FALSE)
        /\ GapIs(WithoutEdge(graph, e), e[1], e[2], TRUE)

\* C6 amended: a direct edge a -> b gives gap=false; the graph lacking only
\* that edge gives gap=true exactly when no directed path from a to b is left
\* in it (a = b, or a route through other types, keeps gap=false).
C6_DirectEdgeClosesGap ==
    \A e \in Edges(graph) :
        /\ GapIs(graph, e[1], e[2], FALSE)
        /\ GapIs(WithoutEdge(graph, e), e[1], e[2],
                 ~PathExists(WithoutEdge(graph, e), e[1], e[2]))

\* An edge whose removal opens a gap, and one whose removal leaves a route.
C6_Witness ==
    /\ \E e \in Edges(graph) : GapIs(WithoutEdge(graph, e), e[1], e[2], TRUE)
    /\ \E e \in Edges(graph) :
          /\ e[1] # e[2]
          /\ GapIs(WithoutEdge(graph, e), e[1], e[2], FALSE)

\* ------------------------------------------------------------------- C7

\* C7 as claimed: for every start and end, forward_search(start) contains
\* start, backward_search(end) contains end, and the two sets meet exactly
\* when a directed path from start to end exists.
C7_SearchSetsAlwaysContainEndpoints ==
    \A s \in Types, t \in Types :
        /\ s \in forward_search(graph, s)
        /\ t \in backward_search(graph, t)
        /\ (forward_search(graph, s) \cap backward_search(graph, t) # {})
              <=> PathExists(graph, s, t)

\* C7 amended: for a start (end) that is a node of the graph the forward
\* (backward) set contains it, for one that is not the set is empty; the two
\* sets meet exactly when a directed path from start to end exists; and every
\* gap=true result carries disjoint sets.
C7_SearchSets ==
    \A s \in Types, t \in Types :
        /\ s \in graph.nodes => s \in forward_search(graph, s)
        /\ t \in graph.nodes => t \in backward_search(graph, t)
        /\ s \notin graph.nodes => forward_search(graph, s) = {}
        /\ t \notin graph.nodes => backward_search(graph, t) = {}
        /\ (forward_search(graph, s) \cap backward_search(graph, t) # {})
              <=> PathExists(graph, s, t)
        /\ \A r \in DetectGap(graph, s, t) :
              r.gap => r.forward_reachable \cap r.backward_required = {}

\* A path over an intermediate type, and a gap between two nodes whose search
\* sets each hold more than the endpoint.
C7_Witness ==
    /\ \E s \in graph.nodes, t \in graph.nodes :
          /\ <<s, t>> \notin Edges(graph) /\ s # t
          /\ PathExists(graph, s, t)
    /\ \E s \in graph.nodes, t \in graph.nodes :
          /\ \E r \in DetectGap(graph, s, t) : r.gap
          /\ Cardinality(forward_search(graph, s)) > 1
          /\ Cardinality(backward_search(graph, t)) > 1

\* ------------------------------------------------------------------- C8

\* C8 as claimed: an add_tool whose input or output type is not registered
\* raises a lookup error and leaves the graph as it was.
C8_AddToolRejectsUnregistered ==
    [][\A tool \in AllTools :
          (/\ add_tool(tool)
           /\ ~(Registered(graph, tool.input_type)
                /\ Registered(graph, tool.output_type)))
          => (outcome'.kind = "raised" /\ graph' = graph)]_vars

\* ------------------------------------------------------------------- C9

\* C9 as claimed: with start or end not a node of the graph, find_path returns
\* the empty sequence and detect_gap returns gap=true with the empty set for
\* the absent side; neither raises.
C9_UnregisteredIsNoPath ==
    \A s \in Types, t \in Types :
        NodeMissing(graph, s, t) =>
            /\ \A r \in FindPath(graph, s, t) : r.exc = "none" /\ r.path = << >>
            /\ \A r \in DetectGap(graph, s, t) :
                  /\ r.exc = "none" /\ r.gap
                  /\ s \notin graph.nodes => r.forward_reachable = {}
                  /\ t \notin graph.nodes => r.backward_required = {}

\* ------------------------------------------------------------------ C10

\* C10: for nodes start and end of the graph, find_path raises nothing; when a
\* directed path exists it returns one from start to end along edges of the
\* graph and no path has fewer edges; when none exists it returns the empty
\* sequence.
C10_FindPathShortest ==
    \A s \in graph.nodes, t \in graph.nodes :
        \A r \in FindPath(graph, s, t) :
            /\ r.exc = "none"
            /\ IF PathExists(graph, s, t)
               THEN /\ r.path # << >>
                    /\ r.path[1] = s /\ r.path[Len(r.path)] = t
                    /\ IsPath(graph, r.path)
                    /\ \A q \in SimplePaths(graph, s, t) : Len(r.path) <= Len(q)
               ELSE r.path = << >>

\* Two nodes joined by a direct edge and by a longer route, for which
\* find_path returns the edge; and two nodes with no path.
C10_Witness ==
    /\ \E s \in graph.nodes, t \in graph.nodes :
          /\ \E q \in SimplePaths(graph, s, t) : Len(q) > 2
          /\ \E r \in FindPath(graph, s, t) : r.path = <<s, t>>
    /\ \E s \in graph.nodes, t \in graph.nodes : ~PathExists(graph, s, t)

\* The document d described on its own: the names of its node records, the
\* endpoints of the tools of its edge records, the schema of the last record
\* of a name, the tool of the last record of a pair.
DocNames(d) == {d.nodes[i].name : i \in DOMAIN d.nodes}

DocPairs(d) ==
    {<<d.edges[i].tool.input_type, d.edges[i].tool.output_type>> : i \in DOMAIN d.edges}

DocSchema(d, n) ==
    LET at == {i \in DOMAIN d.nodes : d.nodes[i].name = n}
    IN IF at = {} THEN None
       ELSE Some(d.nodes[CHOOSE i \in at : \A j \in at : j <= i].schema)

DocTool(d, e) ==
    LET at == {i \in DOMAIN d.edges :
                  <<d.edges[i].tool.input_type, d.edges[i].tool.output_type>> = e}
    IN d.edges[CHOOSE i \in at : \A j \in at : j <= i].tool

\* ------------------------------------------------------------------ C11

\* C11: a register_tool (add_tool) leaves the registered tool at its pair, each
\* pair holding one tool, the one whose input and output types are the pair;
\* the pairs are the earlier ones and that pair, and every other pair keeps the
\* tool it had.
C11_OneToolPerPair ==
    [][\A tool \in StoreTools :
          (last'.op = "register_tool" /\ register_tool(tool)) =>
              LET e == <<tool.input_type, tool.output_type>>
              IN /\ graph'.tools[e] = tool
                 /\ Edges(graph') = Edges(graph) \cup {e}
                 /\ \A x \in Edges(graph) \ {e} : graph'.tools[x] = graph.tools[x]
                 /\ \A x \in Edges(graph') :
                       /\ graph'.tools[x].input_type = x[1]
                       /\ graph'.tools[x].output_type = x[2]]_vars

\* A register_tool has just replaced the tool of a pair, another pair holding
\* its own tool.
C11_Witness ==
    /\ last.op = "register_tool"
    /\ last.case = "replaced"
    /\ Cardinality(Edges(graph)) = 2

\* ------------------------------------------------------------------ C12

\* C12: a register_type (add_type) of a registered name replaces that node's
\* schema and of a new name adds that one node; every other node keeps its
\* schema and every edge, with its tool, is as it was.
C12_AddTypeFrame ==
    [][\A name \in StoreTypes, s \in StoreSchemas :
          (last'.op = "register_type" /\ register_type(name, s)) =>
              /\ graph'.nodes = graph.nodes \cup {name}
              /\ graph'.attrs[name] = Some(s)
              /\ \A n \in graph.nodes \ {name} : graph'.attrs[n] = graph.attrs[n]
              /\ graph'.tools = graph.tools]_vars

\* A register_type has just replaced a schema in a graph of two nodes, each
\* with an edge at it.
C12_Witness ==
    /\ last.op = "register_type"
    /\ last.case = "replaced"
    /\ Cardinality(graph.nodes) = 2
    /\ \A n \in graph.nodes : \E e \in Edges(graph) : n \in {e[1], e[2]}
    /\ \E e \in Edges(graph) : e[1] # e[2]

\* ------------------------------------------------------------------ C13

\* C13 as claimed: a save of the graph followed by a load, into the empty
\* graph or into the graph itself, leaves the same nodes, the same schema at
\* every node, the same edges and the same tool at every edge.
C13_SaveLoadRoundTrip ==
    LET saved == SaveToJson(graph, file)
    IN saved.exc = "none" =>
           \A G0 \in {EmptyGraph, graph} :
               LET loaded == LoadFromJson(G0, saved.file)
               IN loaded.exc = "none" /\ loaded.graph = graph

\* ------------------------------------------------------------------ C14

\* C14: a load_ontology that finds the file and returns leaves the graph the
\* document describes, whatever it held before: its nodes are the names of the
\* node records and the endpoints of the tools, each node has the schema of
\* its last record (none without a record), its edges are the pairs of the
\* tools and each edge has the tool of its last record.
C14_LoadReplaces ==
    [][(last'.op = "load_ontology" /\ file # None /\ last'.exc = "none" /\ load_ontology) =>
          LET d == file[1].doc
          IN /\ graph'.nodes = DocNames(d) \cup UNION {{e[1], e[2]} : e \in DocPairs(d)}
             /\ \A n \in graph'.nodes : graph'.attrs[n] = DocSchema(d, n)
             /\ Edges(graph') = DocPairs(d)
             /\ \A e \in Edges(graph') : graph'.tools[e] = DocTool(d, e)]_vars

\* A load has just returned with nodes, having dropped a node or an edge the
\* graph held before it.
C14_Witness ==
    /\ last.op = "load_ontology"
    /\ last.case = "replaced"
    /\ graph.nodes # {}

\* ------------------------------------------------------------------ C15

\* C15: a load_ontology with no file at the path returns and leaves the nodes,
\* the schemas and the edges as they were.
C15_MissingFileNoOp ==
    [][(last'.op = "load_ontology" /\ file = None /\ load_ontology) =>
          (outcome'.kind = "returned" /\ graph' = graph)]_vars

\* A load of a missing file has just returned, the graph holding an edge.
C15_Witness ==
    /\ last.op = "load_ontology"
    /\ last.case = "missing"
    /\ Edges(graph) # {}

\* ------------------------------------------------------------------ C16

\* C16 as claimed: a load_ontology that raises after finding the file leaves
\* the graph exactly as it was before the call.
C16_LoadAllOrNothing ==
    [][(last'.op = "load_ontology" /\ file # None /\ last'.exc # "none" /\ load_ontology)
          => graph' = graph]_vars

\* ------------------------------------------------------------------ C17

\* C17 as claimed: a save_ontology that raises leaves a file that existed at
\* the path with the content it had.
C17_FailedSaveKeepsFile ==
    [][(last'.op = "save_ontology" /\ file # None /\ last'.exc # "none" /\ save_ontology)
          => file' = file]_vars

\* The kind of an error: its exception class and the fixed text its message
\* begins with.
ErrorKind(o) == <<o.exc, Head(o.msg)>>

\* The failure condition of a payload under CodeRunner.run_code.
Condition(p) ==
    IF p.define_error # None THEN "define"
    ELSE IF p.entry = "absent" THEN "missing"
    ELSE IF p.entry = "value" THEN "not callable"
    ELSE IF p.call_error # None THEN "raises"
    ELSE "returns"

\* ------------------------------------------------------------------ C18

\* C18: CodeRunner.run_code raises for each of the four failure conditions an
\* error whose kind (class and message text) differs from the kinds of the
\* other three conditions; the errors of a payload that fails to define and of
\* an entry point that raises carry the text raised; a payload whose entry
\* point returns yields the value returned.
C18_LocalFailuresDistinct ==
    call.op = "CodeRunner.run_code" =>
        LET p == call.input
        IN /\ Condition(p) = "returns" => outcome = Returned(Some(p.value))
           /\ Condition(p) # "returns" => outcome.kind = "raised"
           /\ Condition(p) = "define" => Contains(outcome.msg, p.define_error[1])
           /\ Condition(p) = "raises" => Contains(outcome.msg, p.call_error[1])
           /\ \A q \in Payloads :
                 (Condition(q) \notin {"returns", Condition(p)}
                  /\ Condition(p) # "returns")
                 => ErrorKind(RunCodeLocal(q).outcome) # ErrorKind(outcome)

\* An entry point has just raised with the text another failure is reported
\* with, and the error carries it.
C18_Witness ==
    /\ call.op = "CodeRunner.run_code"
    /\ Condition(call.input) = "raises"
    /\ call.input.call_error = Some(<<"Entry point transform not found in executed code.">>)
    /\ outcome.exc = "RuntimeError"

\* ------------------------------------------------------------------ C19

\* C19 as claimed: a DockerRunner.run_code whose container completed raises,
\* for a non-zero exit, the execution error with the error-channel text; for a
\* zero exit with output that is not JSON, a decoding error of another kind
\* than the execution error, reported once; and returns, for a zero exit with
\* JSON output, the value parsed.  Each call ends its own span and no other.
C19_OneOutcomePerRun ==
    (call.op = "DockerRunner.run_code" /\ call.input.start = "ok") =>
        LET run == call.input
        IN /\ run.exit # 0 =>
                 /\ outcome.kind = "raised"
                 /\ ErrorKind(outcome) = <<"RuntimeError", "Container execution failed:">>
                 /\ run.stderr # << >> => Contains(outcome.msg, run.stderr)
           /\ (run.exit = 0 /\ ~run.json) =>
                 /\ outcome.kind = "raised"
                 /\ ErrorKind(outcome) # <<"RuntimeError", "Container execution failed:">>
           /\ (run.exit = 0 /\ run.json) => outcome = Returned(Some(run.value))
           /\ Len(span_ended) = 1
           /\ span_ended[1].span = "run_code_docker"

\* ------------------------------------------------------------------ C20

\* C20 as claimed: a DockerRunner.run_code or verify_result, returning or
\* raising, leaves no temporary directory and no container it created.
C20_SandboxReleased ==
    [][call'.op \in {"DockerRunner.run_code", "DockerRunner.verify_result"} =>
          (temp_dirs' = temp_dirs /\ containers' = containers)]_vars

\* ------------------------------------------------------------------ C21

\* C21 as claimed: a DockerRunner.verify_result whose validation run exits
\* with a non-zero status raises the verification failure with the output of
\* the run, and one that returns had a validation run that exited with zero.
C21_VerifyMapsExitStatus ==
    call.op = "DockerRunner.verify_result" =>
        LET v == call.input
        IN /\ v.first = "fail" =>
                 outcome = Raised("RuntimeError", <<"Verification failed:">> \o v.logs)
           /\ outcome.kind = "returned" => v.first = "pass"

\* ------------------------------------------------------------------ C22

\* The payload as it behaves when nothing was run before it.
OnFreshHost(p) == Observe(p, {})

LookupFails ==
    \/ ~SchemaLookup(graph, task.start_type).ok
    \/ ~SchemaLookup(graph, task.target_type).ok

\* C23 as claimed: a graph-lookup error ends the call at once with that error:
\* a solve_task whose start or end type is not registered raises the lookup
\* error with no attempt made, and an attempt that finds no schema under one of
\* the types raises KeyError, enters no further attempt, calls generate no
\* more and is not reported as the exhausted-retries error.
C23_LookupErrorsNotRetried ==
    [][/\ (pc = "idle" /\ pc' # "idle"
           /\ NodeMissing(graph, task'.start_type, task'.target_type))
          => (pc' = "done" /\ outcome'.exc = "NodeNotFound"
              /\ attempts' = 0 /\ genCalls' = 0)
       /\ (pc = "synthesize" /\ LookupFails /\ synthesize)
          => (pc' = "done" /\ outcome'.exc = "KeyError"
              /\ ~IsExhausted(outcome')
              /\ attempts' = attempts /\ genCalls' = genCalls)]_vars

\* ------------------------------------------------------------------ C24

\* C24 as claimed: the prompt of every attempt after the first carries, in its
\* ERROR section, the error text of the attempt before, whether that attempt
\* produced code or not and whether the text is empty or not; and the
\* exhausted-retries error carries the error text of the last attempt.
C24_NoFailureSwallowed ==
    [][/\ (pc = "synthesize" /\ attempt > 0 /\ genCalls' = genCalls + 1)
          => Contains(prompt'[1], <<"ERROR:">> \o feedback[1])
       /\ (pc # "done" /\ pc' = "done" /\ IsExhausted(outcome'))
          => outcome'.msg.last_error = feedback'[1]]_vars

\* ------------------------------------------------------------------ C27

\* C27: no step of solve_task (gap detection with its path and reachability
\* queries, the attempts, a return, a rejection, the exhausted-retries error)
\* and no save_ontology changes the nodes, the schemas or the edges of the
\* graph.
C27_GraphFrame ==
    [][graph' = graph]_vars

\* A call has returned the value of a transformation that passed, on a graph
\* that was saved before, and there is no edge between the two types.
C27_Witness ==
    /\ LastAttemptPassed
    /\ outcome.kind = "returned"
    /\ outcome.value # None
    /\ file # None
    /\ <<task.start_type, task.target_type>> \notin Edges(graph)

\* The invocation and the span stack after n steps of invocation i running
\* alone on an agent with graph G and a tracer of the given mode.
RECURSIVE RunAlone(_, _, _, _, _)
RunAlone(G, i, t, n, mode) ==
    IF n = 0 THEN SessionCall(i, t, << >>, mode)
    ELSE LET before == RunAlone(G, i, t, n - 1, mode)
             r == SessionStep(G, before.session, i, before.stack, mode)
         IN After([r.session EXCEPT !.steps = n], r.stack)

\* What a caller sees of an invocation, and where its control stands.
Observable(s) ==
    [pc |-> s.pc, attempt |-> s.attempt, attempts |-> s.attempts,
     requests |-> s.requests, outcome |-> s.outcome]

\* ------------------------------------------------------------------ C25

\* C25 as claimed: whether the tracer records or is a no-op, every invocation
\* stands after each of its steps where it stands after as many steps under a
\* no-op tracer, with the same attempts made, the same generation requests
\* sent and the same outcome, and the graph is the one the agent was set up
\* with.
C25_TracerObservational ==
    /\ graph = TwoTypes
    /\ \A i \in Invocations :
          sessions[i].pc # "idle" =>
              Observable(sessions[i])
                  = Observable(RunAlone(graph, i, sessions[i].task,
                                        sessions[i].steps, "noop").session)

\* ------------------------------------------------------------------ C26

\* C26 as claimed: with the graph left alone, what a caller sees of every
\* invocation (attempts made, requests sent, outcome) and where it stands is
\* after each of its steps what it is after as many steps of the invocation
\* running alone on the same agent, and a step of one invocation changes no
\* local variable of another.
C26_InvocationsIndependent ==
    [][\A i \in Invocations :
          /\ sessions'[i].pc # "idle" =>
                Observable(sessions'[i])
                    = Observable(RunAlone(graph', i, sessions'[i].task,
                                          sessions'[i].steps, tracing').session)
          /\ sessions'[i] # sessions[i] =>
                \A j \in Invocations \ {i} : sessions'[j] = sessions[j]]_vars

\* ------------------------------------------------------------------ C28

\* C28: under a schema tagged array, validate_schema accepts a value exactly
\* when it is a list and, an item schema being present, each of its elements
\* is accepted under the item schema (so the empty list is accepted); under
\* the schema array-of-object-with-string-subject the list holding the dict
\* with subject "x" is accepted and that dict itself is rejected.
C28_ArrayValidation ==
    (validation.op = "validate_schema" /\ validation.schema.type = Some("array")) =>
        LET data == validation.data
            schema == validation.schema
        IN /\ validation.verdict.ok <=>
                 /\ data.t = "list"
                 /\ schema.items # None =>
                       \A n \in 1..Len(data.items) :
                           validate_schema(data.items[n], schema.items[1]).ok
           /\ (data = JList(<< >>)) => validation.verdict.ok
           /\ schema = SubjectArraySchema =>
                 /\ data = JList(<<JDict(<<Field("subject", JStr("x"))>>)>>)
                       => validation.verdict.ok
                 /\ data = JDict(<<Field("subject", JStr("x"))>>)
                       => ~validation.verdict.ok

\* A list was rejected for its second element alone.
C28_Witness ==
    /\ validation.op = "validate_schema"
    /\ validation.schema = SubjectArraySchema
    /\ validation.data.t = "list"
    /\ Len(validation.data.items) = 2
    /\ validate_schema(validation.data.items[1], validation.schema.items[1]).ok
    /\ ~validation.verdict.ok

\* ------------------------------------------------------------------ C29

\* C29: under a schema tagged object, validate_schema accepts a value exactly
\* when it is a dict and each declared property whose key the dict holds has a
\* value accepted under the schema of the property: a declared property the
\* dict lacks and a key that is not declared reject nothing.
C29_ObjectValidation ==
    (validation.op = "validate_schema" /\ validation.schema.type = Some("object")) =>
        LET data == validation.data
            schema == validation.schema
        IN validation.verdict.ok <=>
              /\ data.t = "dict"
              /\ schema.properties # None =>
                    \A n \in 1..Len(schema.properties[1]) :
                        LET p == schema.properties[1][n]
                        IN HasKey(data, p.name) =>
                              validate_schema(Get(data, p.name), p.schema).ok

\* A dict that lacks a declared property and holds a key that is not declared
\* was accepted.
C29_Witness ==
    /\ validation.op = "validate_schema"
    /\ validation.schema =
          ObjectWith(Some(<<Prop("subject", StringSchema), Prop("predicate", Schema(Some("integer"), None, None))>>))
    /\ validation.data = JDict(<<Field("subject", JStr("x")), Field("extra", JInt)>>)
    /\ validation.verdict.ok

\* ------------------------------------------------------------------ C30

\* The value is a dict that holds the three keys of a triple.
IsTriple(v) ==
    v.t = "dict" /\ HasKey(v, "subject") /\ HasKey(v, "predicate") /\ HasKey(v, "object")

\* C30 as claimed: the test generated for KGTriples passes only for a value
\* that validate_schema accepts and that is a non-empty list whose elements
\* all hold subject, predicate and object; the test generated for another
\* target type passes exactly when validate_schema accepts the value.
C30_TriplesOverlay ==
    validation.op = "test_output_schema" =>
        LET data == validation.data
        IN /\ (validation.target_type = "KGTriples" /\ validation.verdict.ok) =>
                 /\ validate_schema(data, validation.schema).ok
                 /\ data.t = "list"
                 /\ data.items # << >>
                 /\ \A n \in 1..Len(data.items) : IsTriple(data.items[n])
           /\ validation.target_type # "KGTriples" =>
                 validation.verdict = validate_schema(data, validation.schema)

\* ------------------------------------------------------------------ C31

\* C31 as claimed: the prompt of attempt 0 has no retry block, and a retry
\* block in the prompt of a later attempt holds the code generated in the
\* attempt before and the error text of the attempt before.
C31_PreviousAttemptEmbedded ==
    pc = "execute" =>
        IF attempt = 0
        THEN ~Contains(prompt[1], <<"PREVIOUS ATTEMPT FAILED.">>)
        ELSE Contains(prompt[1], <<"PREVIOUS ATTEMPT FAILED.">>) =>
                /\ hist.prevCode # None
                /\ Contains(prompt[1], <<"CODE:">> \o hist.prevCode[1]
                                       \o <<"ERROR:">> \o hist.prevErr[1])

\* ------------------------------------------------------------------ C32

\* C32: after a run_code that returned, exactly one verification path is
\* taken: with a predicate of the caller the predicate is called, under either
\* runner, and no schema-based verification follows it; with no predicate and
\* the docker runner the schema-based verification is run and no predicate;
\* with no predicate and the local runner the call returns the value run_code
\* returned, nothing verified.  No verification is started from anywhere else.
C32_OneVerificationPath ==
    [][/\ (pc = "execute" /\ hist'.failures = hist.failures) =>
             /\ task.verification_fn => pc' = "verify_fn"
             /\ (~task.verification_fn /\ runner = "docker") => pc' = "verify_schema"
             /\ (~task.verification_fn /\ runner = "local") =>
                   (pc' = "done" /\ result' # None /\ outcome' = Returned(result'))
       /\ pc = "verify_fn" => pc' \in {"done", "synthesize"}
       /\ pc = "verify_schema" => pc' \in {"done", "synthesize"}
       /\ (pc # "execute" /\ pc' # pc) => pc' \notin {"verify_fn", "verify_schema"}]_vars

\* A call under the docker runner returned a value that only the predicate of
\* the caller verified.
C32_Witness ==
    /\ LastAttemptPassed
    /\ runner = "docker"
    /\ task.verification_fn
    /\ outcome.kind = "returned"
    /\ outcome.value # None

\* ------------------------------------------------------------------ C33

\* C33: within an attempt the steps are generate, execute, verify, in this
\* order: run_code is called only after the generate of the attempt returned,
\* on the code extracted from its response; a verification is started only by
\* the run_code of the attempt returning a value; and a step that fails ends
\* the attempt, the call going to the next attempt when the attempt is not the
\* last and raising the exhausted-retries error when it is.
C33_StepOrder ==
    [][/\ (pc = "synthesize" /\ pc' = "execute") =>
             /\ genCalls' = genCalls + 1
             /\ execCalls' = execCalls
             /\ \E g \in GenerateOutcomes :
                   g.ok /\ current_code' = Some(extract_code_block(g.text))
             /\ hist'.thisCode = current_code'
       /\ execCalls' # execCalls =>
             /\ pc = "execute"
             /\ execCalls' = execCalls + 1
             /\ genCalls' = genCalls
             /\ current_code # None
             /\ current_code = hist.thisCode
       /\ (pc' \in {"verify_fn", "verify_schema"} /\ pc' # pc) =>
             /\ execCalls' = execCalls + 1
             /\ hist'.failures = hist.failures
             /\ result' # None
             /\ result' = hist'.thisValue
       /\ pc \in {"verify_fn", "verify_schema"} =>
             (genCalls' = genCalls /\ execCalls' = execCalls /\ result = hist.thisValue)
       /\ hist'.failures # hist.failures =>
             /\ hist'.failures = hist.failures + 1
             /\ pc \in {"synthesize", "execute", "verify_fn", "verify_schema"}
             /\ IF attempt = task.max_retries
                THEN pc' = "done" /\ IsExhausted(outcome')
                ELSE pc' = "synthesize" /\ attempt' = attempt + 1]_vars

\* Attempt 0 generated code, ran it and failed in the verification; the call
\* stands at the generation of attempt 1.
C33_Witness ==
    /\ pc = "synthesize"
    /\ attempt = 1
    /\ genCalls = 1 /\ execCalls = 1
    /\ hist.prevCode # None
    /\ result # None
    /\ feedback = Some(<<"result rejected">>)

\* ------------------------------------------------------------------ C34

\* C34: CodeRunner.run_code makes its steps in the order definition, lookup of
\* the entry point, callable check, call, and ends at the first that fails:
\* the entry point is called at most once, and only for a payload that defined
\* without error an entry point that is callable; each call ends with exactly
\* one of the error of the definition, the missing entry point, the entry
\* point that is not callable, the error of the call, or the value returned.
C34_LocalCheckOrder ==
    call.op = "CodeRunner.run_code" =>
        LET p == call.input
            n == Len(call.steps)
            calls == Cardinality({k \in 1..n : call.steps[k] = "call"})
            kinds == { <<"RuntimeError", "Failed to define code:">>,
                       <<"ValueError", "Entry point transform not found in executed code.">>,
                       <<"ValueError", "Entry point transform is not callable.">>,
                       <<"RuntimeError", "Failed to execute entry point transform:">> }
        IN /\ n >= 1
           /\ call.steps = SubSeq(LocalSteps, 1, n)
           /\ calls <= 1
           /\ calls = 1 <=> (p.define_error = None /\ p.entry = "function")
           /\ p.define_error # None =>
                 (n = 1 /\ ErrorKind(outcome) = <<"RuntimeError", "Failed to define code:">>)
           /\ (p.define_error = None /\ p.entry = "absent") =>
                 (n = 2 /\ ErrorKind(outcome) =
                            <<"ValueError", "Entry point transform not found in executed code.">>)
           /\ (p.define_error = None /\ p.entry = "value") =>
                 (n = 3 /\ ErrorKind(outcome) =
                            <<"ValueError", "Entry point transform is not callable.">>)
           /\ outcome.kind = "raised" <=> Condition(p) # "returns"
           /\ outcome.kind = "raised" => ErrorKind(outcome) \in kinds
           /\ outcome.kind = "returned" => outcome = Returned(Some(p.value))

\* A payload whose definition raised after it had bound the entry point to a
\* function was reported as failing to define, the function not called.
C34_Witness ==
    /\ call.op = "CodeRunner.run_code"
    /\ call.input.define_error # None
    /\ call.input.entry = "function"
    /\ call.input.call_error # None
    /\ call.steps = <<"exec">>
    /\ outcome.exc = "RuntimeError"

\* ------------------------------------------------------------------ C35

\* The first position of the text that holds a fence token of one of the given
\* kinds with a fence after it, or 0.
FirstFenced(text, kinds) ==
    LET opens == {i \in 1..Len(text) : text[i] \in kinds /\ ClosingFence(text, i) # 0}
    IN IF opens = {} THEN 0 ELSE CHOOSE i \in opens : \A k \in opens : i <= k

\* C35 as claimed: extract_code_block returns what stands between the fences
\* of the first block whose fence has a language tag, when there is one; else
\* what stands between the fences of the first block without a tag; else the
\* whole response; and what it returns holds no fence and no language tag.
C35_ExtractionCases ==
    conversion.op = "extract_code_block" =>
        LET text == conversion.input
            payload == conversion.output
            tagged == FirstFenced(text, {FencePython, FenceOther})
            untagged == FirstFenced(text, {Fence})
        IN /\ payload =
                 IF tagged # 0
                 THEN SubSeq(text, tagged + 1, ClosingFence(text, tagged) - 1)
                 ELSE IF untagged # 0
                 THEN SubSeq(text, untagged + 1, ClosingFence(text, untagged) - 1)
                 ELSE text
           /\ \A n \in 1..Len(payload) :
                 ~IsFence(payload[n]) /\ payload[n] \notin {"python", "js"}

\* ------------------------------------------------------------------ C36

\* C36 as claimed: for every input that json.dumps can write (null, a bool, an
\* int, a string, lists and dicts of these), the wrapper script of
\* DockerRunner.run_code passes to the entry point a value equal to the input.
C36_InputRoundTrip ==
    conversion.op = "wrapper input" =>
        /\ conversion.output.ok
        /\ conversion.output.value = conversion.input

\* ------------------------------------------------------------------ C37

\* C37 as claimed: under a schema with a scalar tag validate_schema accepts
\* only a value of the kind of the tag: a string under string, an int that is
\* no bool under integer, a number under number.
C37_ScalarKindsMatch ==
    (validation.op = "validate_schema" /\ validation.verdict.ok) =>
        /\ validation.schema.type = Some("string") => validation.data.t = "str"
        /\ validation.schema.type = Some("integer") => validation.data.t = "int"
        /\ validation.schema.type = Some("number") => validation.data.t = "int"

\* ------------------------------------------------------------------ C38

\* C38 as claimed: a runner call (run_code of either runner, verify_result)
\* leaves the span stack as deep as it found it, whether it returns or raises,
\* having ended the one span it started and no span of its caller.
C38_SpansBalanced ==
    [][/\ span_stack' = span_stack
       /\ Len(span_ended') = 1
       /\ span_ended'[1].span \in {"run_code", "run_code_docker", "verify_result_docker"}]_vars

\* ------------------------------------------------------------------ C39

\* C39 as claimed: a solve_task call that detected a gap ends, for every
\* max_retries, either returning the value of an attempt that was executed and
\* verified or raising the exhausted-retries error.
C39_TwoWaysToEnd ==
    (pc = "done" /\ GapIs(graph, task.start_type, task.target_type, TRUE)) =>
        \/ /\ LastAttemptPassed
           /\ hist.thisValue # None
           /\ outcome = Returned(hist.thisValue)
        \/ /\ AllAttemptsFailed
           /\ IsExhausted(outcome)

====
